---- MODULE Spec2Model ----
\* Streaming STT sessions of KTV-POC: the file-streaming clients
\* (HAIVStreamingSTT, WhisperStreamingSTT, WhisperLiveKitSTT), the batch
\* client HAIVSTTClient, the SSE route that consumes them, and the live
\* service LiveSTTService, each against an unconstrained backend.
EXTENDS Integers, Sequences, FiniteSets, TLC

\* ---------------------------------------------------------------- bounds
MaxChunks == 2      \* chunks the audio source can deliver before end of data
MaxMsgs == 2        \* messages the backend sends in one session
MaxSegs == 2        \* segments (or committed lines) carried by one message
MaxFrames == 2      \* client frames of a live session
MaxPipeChunks == 2  \* chunks a video of the chunk pipeline spans
MaxLines == 4       \* lines of output the batch STT client prints
MaxEmit == 2        \* segments converted to subtitles in one session
MaxLineMsgs == 3    \* messages of one WhisperLiveKit transcript
MaxTranscript == 3  \* lexemes of a transcript handed to postprocessing
MaxProfane == 3     \* lexemes of a text handed to filter_profanity
MaxTerms == 2       \* lexemes of a text handed to apply_dictionary_mapping
MaxSubtitle == 5    \* characters of a text handed to split_for_subtitle
MaxDocs == 2        \* valid documents the dictionary file can hold
MaxMtime == 2       \* modification times of the dictionary file
MaxVoices == 3      \* voices the speaker detector can hear
MaxConns == 2       \* speaker-detection connections
MaxEntries == 2     \* entries of a dynamic table of the dictionary file
MaxUtterances == 2  \* utterances the Whisper backend reports in a session
MaxBatch == 2       \* messages the Whisper backend sends in a session
Grain == 20         \* steps of no_speech_prob and avg_logprob in one unit
MaxLogprob == 2     \* avg_logprob is no lower than -MaxLogprob

\* ------------------------------------------------------ program constants
HAIV_CHUNK_SIZE == 4000
ProgressEvery == 10

VARIABLES
    engine,         \* which client runs this session
    conn,           \* backend connection: "none", "open", "peer_closed", "closed"
    gen_pc,         \* position of the session generator / coroutine
    send_pc,        \* position of the send task
    recv_pc,        \* position of the receive task
    srcLeft,        \* chunks the audio source still holds
    chunk,          \* chunk read from the source and not yet sent (0: none)
    srcEOF,         \* the source returned the empty read
    sendRaised,     \* a send on the backend connection raised
    sent,           \* everything written to the backend, in order
    send_done,      \* asyncio.Event set by the send task
    proc,           \* ffmpeg subprocess: "none", "running", "terminated"
    backendLog,     \* every message the backend has sent, in order
    inbox,          \* backend messages not yet read by the client
    silent,         \* the backend has gone silent for good (never closes)
    configLog,      \* serial numbers consumed by the start-up config wait
    readLog,        \* serial numbers of the messages the receive task handled
    completionRead, \* the receive task handled a completion message
    recvEnd,        \* why the receive task ended
    segment_id,     \* self.segment_id
    last_lines_count, \* self.last_lines_count (WhisperLiveKit)
    results_queue,  \* asyncio.Queue between receive task and generator
    putLog,         \* history of every put on results_queue / self.results
    delivered,      \* subtitles yielded to the caller, in order
    events,         \* events the route (or live service) pushed to its client
    subtitle_count, \* route's subtitle counter
    is_running,     \* LiveSTTService.is_running
    stop_pc,        \* position of LiveSTTService.stop()
    bufLo, bufHi,   \* live audio_buffer holds client bytes [bufLo, bufHi)
    clientPos,      \* bytes received from the live client so far
    clientState,    \* live client socket: "open", "disconnected"
    frames,         \* client frames received so far
    p_pc,           \* position of RealtimeSTTPipeline.process_stream
    is_cancelled,   \* RealtimeSTTPipeline.is_cancelled
    total_duration, \* length of the video in units of chunk_duration (0: unknown)
    chunk_index,    \* process_stream's chunk_index
    seg_todo,       \* segments of the current chunk not yet yielded
    all_segments,   \* len(all_segments)
    pevents,        \* events process_stream has yielded, in order
    cancelMark,     \* Len(pevents) when cancel() was called (-1: not called)
    parse_pc,       \* HAIVSTTService.transcribe: "idle", "run", "done"
    out_lines,      \* the client's stdout, one entry per line
    result_n,       \* segments in the client's result.json
    stt_segments,   \* ids of the segments transcribe returns, in order
    start_offset,   \* the caller's start_offset, in tenths of a second
    enable_diarization, \* the caller's enable_diarization
    current_audio_time, \* self.current_audio_time, in tenths of a second
    current_speaker, \* current_speaker / self.current_speaker_id
    msg_in,         \* the backend segment converted last
    subtitle,       \* the subtitle made from msg_in
    emitted,        \* subtitles made so far
    fn,             \* the text function called, or the client that receives
    fn_args,        \* the arguments of the call
    fn_pc,          \* "idle", "call", "returned"
    fn_ret,         \* what the call returned
    file_content,   \* what stt_dictionaries.json holds
    file_mtime,     \* the time of the last write to the file
    json_data_cache, \* _json_data_cache: 0 (None) or the document loaded
    json_data_mtime, \* _json_data_mtime
    compiled_json_profanity_cache, \* _compiled_json_profanity_cache
    json_profanity_mtime, \* _json_profanity_mtime
    compiled_patterns_cache, \* _compiled_patterns_cache
    patterns_version, \* _patterns_version, counting dynamic patterns
    json_patterns_mtime, \* _json_patterns_mtime
    save_pc,        \* admin save_data: "idle", "open"
    save_old,       \* what the file held when the save began
    save_new,       \* the document the save writes
    store_call,     \* the last call on the store: what it saw and used
    detector,       \* routers/speaker.py _detector
    ws_open,        \* the speaker-detection connections that are open
    preceding,      \* embedding of the last long-enough segment processed
    last_op         \* the last operation on the detector

vars == <<engine, conn, gen_pc, send_pc, recv_pc, srcLeft, chunk, srcEOF,
          sendRaised, sent, send_done, proc, backendLog, inbox, silent,
          configLog, readLog, completionRead, recvEnd, segment_id, last_lines_count,
          results_queue, putLog, delivered, events, subtitle_count,
          is_running, stop_pc, bufLo, bufHi, clientPos, clientState, frames,
          p_pc, is_cancelled, total_duration, chunk_index, seg_todo,
          all_segments, pevents, cancelMark,
          parse_pc, out_lines, result_n, stt_segments,
          start_offset, enable_diarization, current_audio_time,
          current_speaker, msg_in, subtitle, emitted,
          fn, fn_args, fn_pc, fn_ret,
          file_content, file_mtime, json_data_cache, json_data_mtime,
          compiled_json_profanity_cache, json_profanity_mtime,
          compiled_patterns_cache, patterns_version, json_patterns_mtime,
          save_pc, save_old, save_new, store_call,
          detector, ws_open, preceding, last_op>>

pipeVars == <<p_pc, is_cancelled, total_duration, chunk_index, seg_todo,
              all_segments, pevents, cancelMark>>
\* the variables of the specifications other than the streaming sessions
parseVars == <<parse_pc, out_lines, result_n, stt_segments>>
convVars == <<start_offset, enable_diarization, current_audio_time,
              current_speaker, msg_in, subtitle, emitted>>
textVars == <<fn, fn_args, fn_pc, fn_ret>>
storeVars == <<file_content, file_mtime, json_data_cache, json_data_mtime,
               compiled_json_profanity_cache, json_profanity_mtime,
               compiled_patterns_cache, patterns_version,
               json_patterns_mtime, save_pc, save_old, save_new, store_call>>
detectorVars == <<detector, ws_open, preceding, last_op>>
\* the variables of postprocessing and of the speaker detector
laterVars == <<textVars, storeVars, detectorVars>>
otherVars == <<pipeVars, parseVars, convVars, laterVars>>
liveVars == <<is_running, stop_pc, bufLo, bufHi, clientPos, clientState, frames>>
sendVars == <<send_pc, srcLeft, chunk, srcEOF, sendRaised, sent, send_done, proc>>
recvVars == <<recv_pc, readLog, completionRead, recvEnd, segment_id,
              last_lines_count, results_queue, putLog>>
backendVars == <<backendLog, inbox, silent>>
callerVars == <<delivered, events, subtitle_count, configLog>>
\* everything a streaming or live session owns
sessionVars == <<engine, conn, gen_pc, sendVars, recvVars, backendVars,
                 callerVars, liveVars>>
\* everything outside the chunk pipeline
outsidePipe == <<sessionVars, parseVars, convVars, laterVars>>
\* everything outside HAIVSTTService.transcribe
outsideParse == <<sessionVars, pipeVars, convVars, laterVars>>
\* everything outside the conversion of a segment to a subtitle
outsideConv == <<sessionVars, pipeVars, parseVars, laterVars>>
\* everything outside the text functions of postprocessing
outsideText == <<sessionVars, pipeVars, parseVars, convVars, storeVars,
                 detectorVars>>
\* everything outside the dictionary file and its caches
outsideStore == <<sessionVars, pipeVars, parseVars, convVars, textVars,
                  detectorVars>>
\* everything outside the speaker detector
outsideDetector == <<sessionVars, pipeVars, parseVars, convVars, textVars,
                     storeVars>>

\* ------------------------------------------------------------- data types
StreamEngines == {"haiv", "whisper", "wlk"}
FileEngines == StreamEngines \cup {"batch"}
LiveEngines == {"live_haiv", "live_whisper"}
\* engines the SSE route /api/realtime/ultra dispatches to
RouterEngines == {"haiv", "wlk"}

\* the end-of-results sentinel (Python None on the queue)
None == [id |-> 0, msg |-> 0, seg |-> 0]

Audio(lo, hi) == [k |-> "audio", lo |-> lo, hi |-> hi]
\* the end-of-stream marker: "EOS", or b'' for WhisperLiveKit
EOS == [k |-> "EOS", lo |-> 0, hi |-> 0]

\* message kinds each backend protocol can put on the wire
Kinds(e) ==
    CASE e \in {"haiv", "batch", "live_haiv"} -> {"result", "junk", "eos"}
      [] e = "whisper" -> {"segment", "final", "finaltext", "junk"}
      [] e = "live_whisper" -> {"segment", "final", "junk"}
      [] e = "wlk" -> {"lines", "config", "ready_to_stop", "junk"}

\* how many candidates a message of kind k may carry; the live service
\* never looks into the segments of a final message
SegRange(e, k) ==
    CASE k \in {"result", "segment"} -> 0..1
      [] k \in {"final", "finaltext", "lines"} /\ e \notin LiveEngines -> 0..MaxSegs
      [] OTHER -> {0}

\* ------------------------------------------------------------ pure helpers
RECURSIVE CountEOS(_)
CountEOS(s) ==
    IF s = <<>> THEN 0
    ELSE (IF Head(s).k = "EOS" THEN 1 ELSE 0) + CountEOS(Tail(s))

RECURSIVE CountNone(_)
CountNone(s) ==
    IF s = <<>> THEN 0
    ELSE (IF Head(s) = None THEN 1 ELSE 0) + CountNone(Tail(s))

SelectSubs(s) == SelectSeq(s, LAMBDA x : x /= None)
SelectAudio(s) == SelectSeq(s, LAMBDA x : x.k = "audio")

\* a queue that hands out the newest item first
QueuePutFront(q, x) == <<x>> \o q

\* asyncio.Queue.put: first in, first out
QueuePut(q, x) == Append(q, x)

\* ws.send of one audio chunk (chunk i of the source is the interval [i-1, i))
SendItem(s, c) == Append(s, Audio(c - 1, c))

\* the candidates message m yields, numbered from segment_id + 1; for
\* WhisperLiveKit only the lines beyond last_lines_count are new
FirstNew(e, m) == IF e = "wlk" THEN last_lines_count + 1 ELSE 1
NewCount(e, m) ==
    IF m.k \in {"result", "segment", "final", "finaltext"} THEN m.segs
    ELSE IF m.k = "lines" /\ m.segs >= FirstNew(e, m)
         THEN m.segs - FirstNew(e, m) + 1
    ELSE 0
Candidates(e, m) ==
    [j \in 1..NewCount(e, m) |->
        [id |-> segment_id + j, msg |-> m.n, seg |-> FirstNew(e, m) + j - 1]]

RECURSIVE PutAll(_, _)
PutAll(q, subs) ==
    IF subs = <<>> THEN q ELSE PutAll(QueuePut(q, Head(subs)), Tail(subs))

\* does the receive loop leave after handling a message of kind k
IsCompletion(e, k) ==
    CASE e \in {"haiv", "batch"} -> k = "eos"
      [] e = "wlk" -> k = "ready_to_stop"
      [] e = "whisper" -> FALSE
      [] e \in LiveEngines -> k \in {"final", "finaltext", "eos"}

\* the message the protocol defines as its completion message
IsCompletionMsg(e, k) ==
    CASE e \in {"haiv", "batch", "live_haiv"} -> k = "eos"
      [] e = "wlk" -> k = "ready_to_stop"
      [] e \in {"whisper", "live_whisper"} -> k \in {"final", "finaltext"}

\* a receive task that ends without signalling the consumer
RecvFinallyNoSentinel(q) == q

\* the finally block of a receive task: the sentinel goes on the queue
RecvFinally(q) == QueuePut(q, None)

\* ------------------------------------------------------------------ Init
InitCommon ==
    /\ conn = "none"
    /\ gen_pc = "connect"
    /\ send_pc = "init"
    /\ recv_pc = "init"
    /\ chunk = 0
    /\ srcEOF = FALSE
    /\ sendRaised = FALSE
    /\ sent = <<>>
    /\ send_done = FALSE
    /\ proc = "none"
    /\ backendLog = <<>>
    /\ inbox = <<>>
    /\ silent = FALSE
    /\ configLog = <<>>
    /\ readLog = <<>>
    /\ completionRead = FALSE
    /\ recvEnd = "none"
    /\ segment_id = 0
    /\ last_lines_count = 0
    /\ results_queue = <<>>
    /\ putLog = <<>>
    /\ delivered = <<>>
    /\ subtitle_count = 0
    /\ stop_pc = "idle"
    /\ bufLo = 0
    /\ bufHi = 0
    /\ clientPos = 0
    /\ clientState = "open"
    /\ frames = 0

\* no chunk pipeline runs beside a streaming session
PipeIdle ==
    /\ p_pc = "idle"
    /\ is_cancelled = FALSE
    /\ total_duration = 0
    /\ chunk_index = 0
    /\ seg_todo = 0
    /\ all_segments = 0
    /\ pevents = <<>>
    /\ cancelMark = -1

\* no batch transcription runs
ParseIdle ==
    /\ parse_pc = "idle"
    /\ out_lines = <<>>
    /\ result_n = 0
    /\ stt_segments = <<>>

\* a field a message does not carry; as a speaker: Python None
NoValue == -1
\* a timestamp float() rejects
BadValue == -2

NoSegment ==
    [k |-> "none", start |-> NoValue, end |-> NoValue, length |-> NoValue,
     speaker |-> NoValue, changed |-> FALSE]
NoSubtitle == [start_time |-> 0, end_time |-> 0, speaker |-> NoValue]

\* no segment is being converted
ConvIdle ==
    /\ start_offset = 0
    /\ enable_diarization = TRUE
    /\ current_audio_time = 0
    /\ current_speaker = 0
    /\ msg_in = NoSegment
    /\ subtitle = NoSubtitle
    /\ emitted = 0

\* no text function is being called
TextIdle ==
    /\ fn = "none"
    /\ fn_args = <<>>
    /\ fn_pc = "idle"
    /\ fn_ret = <<>>

\* ===================== postprocessing.py: the dictionary file and its caches
\* The content of stt_dictionaries.json is a number: Missing (no file),
\* Invalid (text that is not valid JSON: empty, cut short, garbled),
\* Undecodable (bytes that are not UTF-8, such as a document cut inside a
\* character) or the version v >= 1 of a valid document.  The tables built into the
\* source are part of every compiled table; only the dynamic entries, those
\* read from the file, are tracked.
Missing == 0
Invalid == -1
Undecodable == -2
Broken == {Invalid, Undecodable}
Documents == 1..MaxDocs

\* the dynamic entries of a valid document: version v holds the entry v
DocEntries(v) == IF v \in Documents THEN {v} ELSE {}

\* a module-level cache that is still None
NoTable == [built |-> FALSE, dynamic |-> {}]
NoCall ==
    [f |-> "none", content |-> Missing, stale |-> FALSE, saving |-> FALSE,
     old |-> Missing, new |-> Missing, before |-> {}, used |-> {},
     raised |-> FALSE]

\* nothing has touched the dictionary store
StoreIdle ==
    /\ file_content = Missing
    /\ file_mtime = 0
    /\ json_data_cache = 0
    /\ json_data_mtime = 0
    /\ compiled_json_profanity_cache = NoTable
    /\ json_profanity_mtime = 0
    /\ compiled_patterns_cache = NoTable
    /\ patterns_version = 0
    /\ json_patterns_mtime = 0
    /\ save_pc = "idle"
    /\ save_old = Missing
    /\ save_new = Missing
    /\ store_call = NoCall

\* ========================================= speaker_change.py: the detector
\* An embedding is named by the voice it was computed from; 0 stands for
\* None and Failed for a segment whose embedding could not be computed.
Voices == 1..MaxVoices
Failed == -1

\* routers/speaker.py: _detector is None until get_detector() makes it
NoDetector == [made |-> FALSE, last_embedding |-> 0, current_speaker |-> 0]
NoOp ==
    [op |-> "none", conn |-> 0, others |-> {}, kind |-> "none",
     embedding |-> 0, prev |-> 0, before |-> NoDetector,
     changed |-> FALSE, speaker |-> 0]

\* no speaker-detection connection was ever opened
DetectorIdle ==
    /\ detector = NoDetector
    /\ ws_open = {}
    /\ preceding = 0
    /\ last_op = NoOp

\* nothing of postprocessing or of the speaker detector runs
LaterIdle == TextIdle /\ StoreIdle /\ DetectorIdle

Init ==
    /\ engine \in FileEngines
    /\ srcLeft \in 0..MaxChunks
    /\ InitCommon
    /\ PipeIdle
    /\ ParseIdle
    /\ ConvIdle
    /\ LaterIdle
    /\ is_running = FALSE
    /\ events = IF engine \in RouterEngines THEN <<"init">> ELSE <<>>


\* ------------------------------------------------- the caller of a session
\* ultra_event_generator: 'complete' when the session generator ends,
\* 'error' when an exception escapes it
RouterEnd(ev, raised) ==
    IF engine \in RouterEngines
    THEN Append(ev, IF raised THEN "error" ELSE "complete")
    ELSE ev

\* ultra_event_generator: one subtitle event, and a progress event every tenth
RouterSubtitle(ev, count) ==
    IF engine \in RouterEngines
    THEN IF count % ProgressEvery = 0
         THEN ev \o <<"subtitle", "progress">>
         ELSE Append(ev, "subtitle")
    ELSE ev

\* how the start of a session can turn out; transcribe_file first checks
\* that the audio file exists
ConnectOutcomes(e) ==
    {"ok", "refused", "timeout", "handshake"}
        \cup (IF e = "batch" THEN {"nofile"} ELSE {})

\* what the session generator does when websockets.connect fails with `why`
ConnectFailure(e, why) ==
    CASE e \in {"haiv", "wlk", "batch"} -> "done"
      [] e = "whisper" ->
            \* the TimeoutError and ConnectionRefusedError handlers index the
            \* WhisperConfig dataclass (self.config['host']) and raise TypeError
            IF why \in {"timeout", "refused"} THEN "raised" ELSE "done"

\* --------------------------------------------------------- session start
Connect ==
    /\ engine \in FileEngines
    /\ gen_pc = "connect"
    /\ \E why \in ConnectOutcomes(engine) :
        IF why = "ok"
        THEN /\ conn' = "open"
             /\ IF engine = "wlk"
                THEN /\ gen_pc' = "config"
                     /\ UNCHANGED <<send_pc, recv_pc>>
                ELSE /\ gen_pc' = IF engine = "batch" THEN "await_send" ELSE "get"
                     /\ send_pc' = IF engine = "batch" THEN "read" ELSE "spawn"
                     /\ recv_pc' = "wait"
             /\ UNCHANGED events
        ELSE /\ gen_pc' = ConnectFailure(engine, why)
             /\ events' = RouterEnd(events, ConnectFailure(engine, why) = "raised")
             /\ UNCHANGED <<conn, send_pc, recv_pc>>
    /\ UNCHANGED <<otherVars, engine, srcLeft, chunk, srcEOF, sendRaised, sent, send_done,
                   proc, backendVars, readLog, completionRead, recvEnd,
                   segment_id, last_lines_count, results_queue, putLog,
                   delivered, subtitle_count, configLog, liveVars>>

\* WhisperLiveKit: wait up to 5 s for the server's config message, whatever
\* arrives first is consumed; then both tasks are created
WLKConfig ==
    /\ engine = "wlk"
    /\ gen_pc = "config"
    /\ inbox' = IF inbox /= <<>> THEN Tail(inbox) ELSE inbox
    /\ configLog' = IF inbox /= <<>> THEN Append(configLog, Head(inbox).n)
                    ELSE configLog
    /\ gen_pc' = "get"
    /\ send_pc' = "spawn"
    /\ recv_pc' = "wait"
    /\ UNCHANGED <<otherVars, engine, conn, srcLeft, chunk, srcEOF, sendRaised, sent,
                   send_done, proc, backendLog, silent, readLog, completionRead,
                   recvEnd, segment_id, last_lines_count, results_queue, putLog,
                   delivered, events, subtitle_count, liveVars>>

\* ------------------------------------------------------------- send task
\* the finally block of the send task
SendFinish ==
    /\ send_pc' = "done"
    /\ send_done' = (engine \in StreamEngines \/ send_done)
    /\ proc' = IF engine \in StreamEngines THEN "terminated" ELSE proc

\* the marker sent again although it already went out
AfterLoopTwice(s) == Append(Append(s, EOS), EOS)

\* statement after the send loop: the marker goes out once
AfterLoop(s) == Append(s, EOS)

SendSpawn ==
    /\ engine \in StreamEngines
    /\ send_pc = "spawn"
    /\ \E ok \in BOOLEAN :
        IF ok THEN /\ proc' = "running"
                   /\ send_pc' = "read"
              ELSE \* create_subprocess_exec raises outside the try block
                   /\ proc' = proc
                   /\ send_pc' = "failed"
    /\ UNCHANGED <<otherVars, engine, conn, gen_pc, recv_pc, srcLeft, chunk, srcEOF,
                   sendRaised, sent, send_done, backendVars, readLog,
                   completionRead, recvEnd, segment_id, last_lines_count,
                   results_queue, putLog, callerVars, liveVars>>

SendRead ==
    /\ engine \in FileEngines
    /\ send_pc = "read"
    /\ IF srcLeft > 0
       THEN /\ srcLeft' = srcLeft - 1
            /\ chunk' = chunk + 1
            /\ send_pc' = "send"
            /\ UNCHANGED srcEOF
       ELSE /\ srcEOF' = TRUE
            /\ send_pc' = "eos"
            /\ UNCHANGED <<srcLeft, chunk>>
    /\ UNCHANGED <<otherVars, engine, conn, gen_pc, recv_pc, sendRaised, sent, send_done,
                   proc, backendVars, readLog, completionRead, recvEnd,
                   segment_id, last_lines_count, results_queue, putLog,
                   callerVars, liveVars>>

SendChunk ==
    /\ engine \in FileEngines
    /\ send_pc = "send"
    /\ IF conn = "open"
       THEN /\ sent' = SendItem(sent, chunk)
            /\ send_pc' = "read"
            /\ UNCHANGED <<sendRaised, send_done, proc>>
       ELSE /\ sendRaised' = TRUE
            /\ SendFinish
            /\ UNCHANGED sent
    /\ UNCHANGED <<otherVars, engine, conn, gen_pc, recv_pc, srcLeft, chunk, srcEOF,
                   backendVars, readLog, completionRead, recvEnd, segment_id,
                   last_lines_count, results_queue, putLog, callerVars, liveVars>>

SendEOS ==
    /\ engine \in FileEngines
    /\ send_pc = "eos"
    /\ IF conn = "open"
       THEN /\ sent' = AfterLoop(sent)
            /\ UNCHANGED sendRaised
       ELSE /\ sendRaised' = TRUE
            /\ UNCHANGED sent
    /\ SendFinish
    /\ UNCHANGED <<otherVars, engine, conn, gen_pc, recv_pc, srcLeft, chunk, srcEOF,
                   backendVars, readLog, completionRead, recvEnd, segment_id,
                   last_lines_count, results_queue, putLog, callerVars, liveVars>>

\* ------------------------------------------------------------ the backend
HasCompletion(log) ==
    \E i \in 1..Len(log) : IsCompletionMsg(engine, log[i].k)

BackendSend ==
    /\ conn = "open"
    /\ ~silent
    /\ Len(backendLog) < MaxMsgs
    /\ \E k \in Kinds(engine) : \E s \in SegRange(engine, k) :
        LET m == [k |-> k, n |-> Len(backendLog) + 1, segs |-> s]
        IN /\ backendLog' = Append(backendLog, m)
           /\ inbox' = Append(inbox, m)
    /\ UNCHANGED <<otherVars, engine, conn, gen_pc, sendVars, recvVars, silent,
                   callerVars, liveVars>>

BackendClose ==
    /\ conn = "open"
    /\ ~silent
    /\ conn' = "peer_closed"
    /\ UNCHANGED <<otherVars, engine, gen_pc, sendVars, recvVars, backendVars,
                   callerVars, liveVars>>

\* from here on the backend sends nothing and keeps the connection open
BackendGoSilent ==
    /\ conn = "open"
    /\ ~silent
    /\ ~HasCompletion(backendLog)
    /\ silent' = TRUE
    /\ UNCHANGED <<otherVars, engine, conn, gen_pc, sendVars, recvVars, backendLog, inbox,
                   callerVars, liveVars>>


\* ---------------------------------------------------------- receive task
\* the receive task ends for reason `why`; the streaming clients put the
\* sentinel, the batch client has no queue
RecvEnds(q, why) ==
    /\ recv_pc' = "done"
    /\ recvEnd' = why
    /\ results_queue' = IF engine \in StreamEngines THEN RecvFinally(q) ELSE q
    /\ putLog' = IF engine \in StreamEngines
                 THEN RecvFinally(PutAll(putLog, SubSeq(q, Len(results_queue) + 1, Len(q))))
                 ELSE PutAll(putLog, SubSeq(q, Len(results_queue) + 1, Len(q)))

\* one iteration of the receive loop on the next buffered message
RecvMsg ==
    /\ engine \in FileEngines
    /\ recv_pc = "wait"
    /\ inbox /= <<>>
    /\ LET m == Head(inbox)
           subs == Candidates(engine, m)
           q == PutAll(results_queue, subs)
       IN /\ inbox' = Tail(inbox)
          /\ readLog' = Append(readLog, m.n)
          /\ IF engine = "wlk" /\ m.k = "junk"
             THEN \* json.loads raises inside the loop; only the outer
                  \* except Exception catches it
                  /\ RecvEnds(results_queue, "error")
                  /\ UNCHANGED <<segment_id, last_lines_count, completionRead>>
             ELSE /\ segment_id' = segment_id + Len(subs)
                  /\ last_lines_count' =
                        IF m.k = "lines" THEN m.segs ELSE last_lines_count
                  /\ completionRead' =
                        (completionRead \/ IsCompletionMsg(engine, m.k))
                  /\ IF IsCompletion(engine, m.k)
                     THEN RecvEnds(q, "completion")
                     ELSE /\ results_queue' = q
                          /\ putLog' = PutAll(putLog, subs)
                          /\ UNCHANGED <<recv_pc, recvEnd>>
    /\ UNCHANGED <<otherVars, engine, conn, gen_pc, sendVars, backendLog, silent,
                   callerVars, liveVars>>

\* the connection is gone and nothing is buffered: ConnectionClosed
RecvClosed ==
    /\ engine \in FileEngines
    /\ recv_pc = "wait"
    /\ inbox = <<>>
    /\ conn \in {"peer_closed", "closed"}
    /\ RecvEnds(results_queue, "closed")
    /\ UNCHANGED <<otherVars, engine, conn, gen_pc, sendVars, backendVars, readLog,
                   completionRead, segment_id, last_lines_count,
                   callerVars, liveVars>>

\* WhisperLiveKit: wait_for(ws.recv(), 1.0) times out; the loop leaves when
\* the send task has finished, and goes round again otherwise
RecvTimeout ==
    /\ engine = "wlk"
    /\ recv_pc = "wait"
    /\ inbox = <<>>
    /\ conn = "open"
    /\ IF send_done
       THEN RecvEnds(results_queue, "timeout")
       ELSE UNCHANGED <<recv_pc, recvEnd, results_queue, putLog>>
    /\ UNCHANGED <<otherVars, engine, conn, gen_pc, sendVars, backendVars, readLog,
                   completionRead, segment_id, last_lines_count,
                   callerVars, liveVars>>

\* ---------------------------------------------------- session generator
\* results_queue.get() and the yield to the caller
GenGet ==
    /\ engine \in StreamEngines
    /\ gen_pc = "get"
    /\ results_queue /= <<>>
    /\ results_queue' = Tail(results_queue)
    /\ IF Head(results_queue) = None
       THEN /\ gen_pc' = "join"
            /\ UNCHANGED callerVars
       ELSE /\ delivered' = Append(delivered, Head(results_queue))
            /\ subtitle_count' = subtitle_count + 1
            /\ events' = RouterSubtitle(events, subtitle_count + 1)
            /\ UNCHANGED <<gen_pc, configLog>>
    /\ UNCHANGED <<otherVars, engine, conn, send_pc, recv_pc, srcLeft, chunk, srcEOF,
                   sendRaised, sent, send_done, proc, backendVars, readLog,
                   completionRead, recvEnd, segment_id, last_lines_count,
                   putLog, liveVars>>

\* which tasks the generator awaits after the sentinel
JoinReady(e) ==
    CASE e = "haiv" -> send_pc \in {"done", "failed"} /\ recv_pc = "done"
      [] e = "whisper" -> send_pc \in {"done", "failed"}
      [] e = "wlk" -> send_pc = "failed"
                      \/ (send_pc = "done" /\ recv_pc = "done")

\* the tasks are awaited, the connection context exits, the generator ends
GenJoin ==
    /\ engine \in StreamEngines
    /\ gen_pc = "join"
    /\ JoinReady(engine)
    /\ conn' = "closed"
    /\ gen_pc' = "done"
    /\ events' = RouterEnd(events, FALSE)
    /\ UNCHANGED <<otherVars, engine, sendVars, recvVars, backendVars, delivered,
                   subtitle_count, configLog, liveVars>>

\* ---------------------------------- HAIVSTTClient.transcribe_file (batch)
BatchAwaitSend ==
    /\ engine = "batch"
    /\ gen_pc = "await_send"
    /\ send_pc = "done"
    /\ gen_pc' = "await_recv"
    /\ UNCHANGED <<otherVars, engine, conn, sendVars, recvVars, backendVars,
                   callerVars, liveVars>>

\* wait_for(receive_task, 30.0): the task finishes, or it is cancelled
BatchAwaitRecv ==
    /\ engine = "batch"
    /\ gen_pc = "await_recv"
    /\ \/ /\ recv_pc = "done"
          /\ UNCHANGED <<recv_pc, recvEnd>>
       \/ /\ recv_pc = "wait"
          /\ inbox = <<>>
          /\ conn = "open"
          /\ recv_pc' = "cancelled"
          /\ recvEnd' = "timeout"
    /\ gen_pc' = "yield"
    /\ UNCHANGED <<otherVars, engine, conn, sendVars, backendVars, readLog,
                   completionRead, segment_id, last_lines_count,
                   results_queue, putLog, callerVars, liveVars>>

\* for result in self.results: yield result
BatchYield ==
    /\ engine = "batch"
    /\ gen_pc = "yield"
    /\ IF Len(delivered) < Len(results_queue)
       THEN /\ delivered' = Append(delivered, results_queue[Len(delivered) + 1])
            /\ UNCHANGED gen_pc
       ELSE /\ gen_pc' = "done"
            /\ UNCHANGED delivered
    /\ UNCHANGED <<otherVars, engine, conn, sendVars, recvVars, backendVars, events,
                   subtitle_count, configLog, liveVars>>

\* ------------------------------------------------------- specification
Next ==
    \/ Connect
    \/ WLKConfig
    \/ SendSpawn
    \/ SendRead
    \/ SendChunk
    \/ SendEOS
    \/ BackendSend
    \/ BackendClose
    \/ BackendGoSilent
    \/ RecvMsg
    \/ RecvClosed
    \/ RecvTimeout
    \/ GenGet
    \/ GenJoin
    \/ BatchAwaitSend
    \/ BatchAwaitRecv
    \/ BatchYield

Spec == Init /\ [][Next]_vars


\* ============================================== LiveSTTService (live mode)
\* sizes of the binary frames the browser sends, in bytes
FrameSizes == {1500, 6500}

InitLive ==
    /\ engine \in LiveEngines
    /\ srcLeft = 0
    /\ InitCommon
    /\ PipeIdle
    /\ ParseIdle
    /\ ConvIdle
    /\ LaterIdle
    /\ is_running = FALSE
    /\ events = <<>>

\* self.stt_ws is set between the connect and the finally of the session
SttSet == gen_pc = "run"

\* process_live_stream up to the creation of the two tasks
LiveConnect ==
    /\ engine \in LiveEngines
    /\ gen_pc = "connect"
    /\ \E why \in {"ok", "refused", "timeout", "handshake"} :
        IF why = "ok"
        THEN /\ conn' = "open"
             /\ is_running' = TRUE
             /\ events' = Append(events, "connected")
             /\ gen_pc' = "run"
             /\ send_pc' = "top"
             /\ recv_pc' = "wait"
        ELSE /\ is_running' = FALSE
             /\ events' = IF why = "handshake" THEN Append(events, "error")
                          ELSE events
             /\ gen_pc' = "done"
             /\ UNCHANGED <<conn, send_pc, recv_pc>>
    /\ UNCHANGED <<otherVars, engine, srcLeft, chunk, srcEOF, sendRaised, sent, send_done,
                   proc, backendVars, readLog, completionRead, recvEnd,
                   segment_id, last_lines_count, results_queue, putLog,
                   delivered, subtitle_count, configLog, stop_pc, bufLo, bufHi,
                   clientPos, clientState, frames>>

\* while self.is_running
LiveLoopTop ==
    /\ engine \in LiveEngines
    /\ send_pc = "top"
    /\ send_pc' = IF is_running THEN "recv" ELSE "fin_buf"
    /\ UNCHANGED <<otherVars, engine, conn, gen_pc, recv_pc, srcLeft, chunk, srcEOF,
                   sendRaised, sent, send_done, proc, backendVars, readLog,
                   completionRead, recvEnd, segment_id, last_lines_count,
                   results_queue, putLog, callerVars, liveVars>>

\* wait_for(client_ws.receive(), 30.0) returns or raises
LiveReceive ==
    /\ engine \in LiveEngines
    /\ send_pc = "recv"
    /\ IF clientState = "disconnected"
       THEN \* receive() after the disconnect message raises RuntimeError
            /\ send_pc' = "fin_buf"
            /\ UNCHANGED <<bufLo, bufHi, clientPos, clientState, frames>>
       ELSE \/ \E size \in FrameSizes :
                /\ frames < MaxFrames
                /\ frames' = frames + 1
                /\ clientPos' = clientPos + size
                /\ IF engine = "live_haiv"
                   THEN /\ bufHi' = bufHi + size
                        /\ send_pc' = "flush"
                        /\ UNCHANGED bufLo
                   ELSE /\ bufLo' = clientPos
                        /\ bufHi' = clientPos + size
                        /\ send_pc' = "fwd"
                /\ UNCHANGED clientState
            \/ \E text \in {"stop", "other", "invalid", "timeout", "disconnect"} :
                /\ send_pc' = CASE text = "stop" -> "stop_eos"
                                [] text = "invalid" -> "fin_buf"
                                [] OTHER -> "top"
                /\ clientState' = IF text = "disconnect" THEN "disconnected"
                                  ELSE clientState
                /\ UNCHANGED <<bufLo, bufHi, clientPos, frames>>
    /\ UNCHANGED <<otherVars, engine, conn, gen_pc, recv_pc, srcLeft, chunk, srcEOF,
                   sendRaised, sent, send_done, proc, backendVars, readLog,
                   completionRead, recvEnd, segment_id, last_lines_count,
                   results_queue, putLog, callerVars, is_running, stop_pc>>

\* HAIV: while len(audio_buffer) >= HAIV_CHUNK_SIZE: cut a chunk, send it
LiveFlush ==
    /\ engine = "live_haiv"
    /\ send_pc = "flush"
    /\ IF bufHi - bufLo >= HAIV_CHUNK_SIZE
       THEN /\ bufLo' = bufLo + HAIV_CHUNK_SIZE
            /\ IF conn = "open"
               THEN /\ sent' = Append(sent, Audio(bufLo, bufLo + HAIV_CHUNK_SIZE))
                    /\ UNCHANGED <<send_pc, sendRaised>>
               ELSE /\ sendRaised' = TRUE
                    /\ send_pc' = "fin_buf"
                    /\ UNCHANGED sent
       ELSE /\ send_pc' = "top"
            /\ UNCHANGED <<bufLo, sent, sendRaised>>
    /\ UNCHANGED <<otherVars, engine, conn, gen_pc, recv_pc, srcLeft, chunk, srcEOF,
                   send_done, proc, backendVars, readLog, completionRead,
                   recvEnd, segment_id, last_lines_count, results_queue, putLog,
                   callerVars, is_running, stop_pc, bufHi, clientPos,
                   clientState, frames>>

\* Whisper: the frame is forwarded as it came
LiveForward ==
    /\ engine = "live_whisper"
    /\ send_pc = "fwd"
    /\ bufLo' = bufHi
    /\ IF conn = "open"
       THEN /\ sent' = Append(sent, Audio(bufLo, bufHi))
            /\ send_pc' = "top"
            /\ UNCHANGED sendRaised
       ELSE /\ sendRaised' = TRUE
            /\ send_pc' = "fin_buf"
            /\ UNCHANGED sent
    /\ UNCHANGED <<otherVars, engine, conn, gen_pc, recv_pc, srcLeft, chunk, srcEOF,
                   send_done, proc, backendVars, readLog, completionRead,
                   recvEnd, segment_id, last_lines_count, results_queue, putLog,
                   callerVars, is_running, stop_pc, bufHi, clientPos,
                   clientState, frames>>

\* the client's {"type": "stop"}: send "EOS", break
LiveStopCmd ==
    /\ engine \in LiveEngines
    /\ send_pc = "stop_eos"
    /\ IF conn = "open"
       THEN /\ sent' = Append(sent, EOS)
            /\ UNCHANGED sendRaised
       ELSE /\ sendRaised' = TRUE
            /\ UNCHANGED sent
    /\ send_pc' = "fin_buf"
    /\ UNCHANGED <<otherVars, engine, conn, gen_pc, recv_pc, srcLeft, chunk, srcEOF,
                   send_done, proc, backendVars, readLog, completionRead,
                   recvEnd, segment_id, last_lines_count, results_queue, putLog,
                   callerVars, liveVars>>

\* finally, first half: what is left in the HAIV buffer is sent
LiveFinBuf ==
    /\ engine \in LiveEngines
    /\ send_pc = "fin_buf"
    /\ IF engine = "live_haiv" /\ bufHi > bufLo /\ conn = "open"
       THEN sent' = Append(sent, Audio(bufLo, bufHi))
       ELSE UNCHANGED sent
    /\ send_pc' = "fin_eos"
    /\ UNCHANGED <<otherVars, engine, conn, gen_pc, recv_pc, srcLeft, chunk, srcEOF,
                   sendRaised, send_done, proc, backendVars, readLog,
                   completionRead, recvEnd, segment_id, last_lines_count,
                   results_queue, putLog, callerVars, liveVars>>

\* finally, second half: "EOS" is sent
LiveFinEOS ==
    /\ engine \in LiveEngines
    /\ send_pc = "fin_eos"
    /\ IF conn = "open"
       THEN sent' = Append(sent, EOS)
       ELSE UNCHANGED sent
    /\ send_pc' = "done"
    /\ UNCHANGED <<otherVars, engine, conn, gen_pc, recv_pc, srcLeft, chunk, srcEOF,
                   sendRaised, send_done, proc, backendVars, readLog,
                   completionRead, recvEnd, segment_id, last_lines_count,
                   results_queue, putLog, callerVars, liveVars>>

\* _parse_stt_response: how many subtitles message m gives (0 or 1)
LiveParse(e, m) ==
    IF e = "live_whisper"
    THEN IF m.k = "segment" THEN m.segs ELSE 0
    ELSE IF m.k = "result" THEN m.segs ELSE 0

\* receive_from_stt: one iteration
LiveRecvMsg ==
    /\ engine \in LiveEngines
    /\ recv_pc = "wait"
    /\ inbox /= <<>>
    /\ LET m == Head(inbox)
       IN /\ inbox' = Tail(inbox)
          /\ IF ~is_running
             THEN /\ recv_pc' = "done"
                  /\ recvEnd' = "stopped"
                  /\ UNCHANGED <<readLog, completionRead, segment_id,
                                 delivered, events>>
             ELSE /\ readLog' = Append(readLog, m.n)
                  /\ IF m.k = "junk"
                     THEN UNCHANGED <<recv_pc, recvEnd, completionRead,
                                      segment_id, delivered, events>>
                     ELSE IF LiveParse(engine, m) = 1 /\ clientState = "disconnected"
                     THEN \* client_ws.send_json raises
                          /\ segment_id' = segment_id + 1
                          /\ recv_pc' = "done"
                          /\ recvEnd' = "error"
                          /\ UNCHANGED <<completionRead, delivered, events>>
                     ELSE /\ segment_id' = segment_id + LiveParse(engine, m)
                          /\ delivered' =
                                IF LiveParse(engine, m) = 1
                                THEN Append(delivered,
                                        [id |-> segment_id + 1, msg |-> m.n, seg |-> 1])
                                ELSE delivered
                          /\ events' = IF LiveParse(engine, m) = 1
                                       THEN Append(events, "subtitle") ELSE events
                          /\ completionRead' =
                                (completionRead \/ IsCompletionMsg(engine, m.k))
                          /\ IF IsCompletion(engine, m.k)
                             THEN /\ recv_pc' = "done"
                                  /\ recvEnd' = "completion"
                             ELSE UNCHANGED <<recv_pc, recvEnd>>
    /\ UNCHANGED <<otherVars, engine, conn, gen_pc, sendVars, backendLog, silent,
                   last_lines_count, results_queue, putLog, subtitle_count,
                   configLog, liveVars>>

LiveRecvClosed ==
    /\ engine \in LiveEngines
    /\ recv_pc = "wait"
    /\ inbox = <<>>
    /\ conn \in {"peer_closed", "closed"}
    /\ recv_pc' = "done"
    /\ recvEnd' = "closed"
    /\ UNCHANGED <<otherVars, engine, conn, gen_pc, sendVars, backendVars, readLog,
                   completionRead, segment_id, last_lines_count, results_queue,
                   putLog, callerVars, liveVars>>

\* both tasks are gathered, the connection context exits, finally runs
LiveJoin ==
    /\ engine \in LiveEngines
    /\ gen_pc = "run"
    /\ send_pc = "done"
    /\ recv_pc = "done"
    /\ conn' = "closed"
    /\ is_running' = FALSE
    /\ gen_pc' = "done"
    /\ UNCHANGED <<otherVars, engine, sendVars, recvVars, backendVars, callerVars,
                   stop_pc, bufLo, bufHi, clientPos, clientState, frames>>

\* LiveSTTService.stop(), first statement
LiveStop ==
    /\ engine \in LiveEngines
    /\ stop_pc = "idle"
    /\ gen_pc /= "connect"
    /\ is_running' = FALSE
    /\ stop_pc' = IF SttSet THEN "eos" ELSE "done"
    /\ UNCHANGED <<otherVars, engine, conn, gen_pc, sendVars, recvVars, backendVars,
                   callerVars, bufLo, bufHi, clientPos, clientState, frames>>

\* stop(): await self.stt_ws.send("EOS")
LiveStopEOS ==
    /\ engine \in LiveEngines
    /\ stop_pc = "eos"
    /\ IF SttSet /\ conn = "open"
       THEN /\ sent' = Append(sent, EOS)
            /\ stop_pc' = "close"
       ELSE /\ stop_pc' = "done"
            /\ UNCHANGED sent
    /\ UNCHANGED <<otherVars, engine, conn, gen_pc, send_pc, recv_pc, srcLeft, chunk,
                   srcEOF, sendRaised, send_done, proc, backendVars, readLog,
                   completionRead, recvEnd, segment_id, last_lines_count,
                   results_queue, putLog, callerVars, is_running, bufLo, bufHi,
                   clientPos, clientState, frames>>

\* stop(): await self.stt_ws.close()
LiveStopClose ==
    /\ engine \in LiveEngines
    /\ stop_pc = "close"
    /\ conn' = IF SttSet THEN "closed" ELSE conn
    /\ stop_pc' = "done"
    /\ UNCHANGED <<otherVars, engine, gen_pc, sendVars, recvVars, backendVars, callerVars,
                   is_running, bufLo, bufHi, clientPos, clientState, frames>>

NextLive ==
    \/ LiveConnect
    \/ LiveLoopTop
    \/ LiveReceive
    \/ LiveFlush
    \/ LiveForward
    \/ LiveStopCmd
    \/ LiveFinBuf
    \/ LiveFinEOS
    \/ LiveRecvMsg
    \/ LiveRecvClosed
    \/ LiveJoin
    \/ LiveStop
    \/ LiveStopEOS
    \/ LiveStopClose
    \/ BackendSend
    \/ BackendClose

SpecLive == InitLive /\ [][NextLive]_vars

\* the scheduler runs every ready task and every armed timer fires; the
\* backend is under no obligation
FairSpec ==
    /\ Spec
    /\ WF_vars(Connect) /\ WF_vars(WLKConfig)
    /\ WF_vars(SendSpawn) /\ WF_vars(SendRead) /\ WF_vars(SendChunk)
    /\ WF_vars(SendEOS)
    /\ WF_vars(RecvMsg) /\ WF_vars(RecvClosed) /\ WF_vars(RecvTimeout)
    /\ WF_vars(GenGet) /\ WF_vars(GenJoin)
    /\ WF_vars(BatchAwaitSend) /\ WF_vars(BatchAwaitRecv) /\ WF_vars(BatchYield)

\* ================================== a streaming session closed by its caller
\* the caller closes the session generator (aclose(), or the task iterating
\* it is cancelled at a client disconnect): the exception is raised at the
\* await the generator is suspended in, the `async with` block exits and
\* closes the connection; send_task and recv_task are left running
GenClose ==
    /\ engine \in StreamEngines
    /\ gen_pc \in {"config", "get", "join"}
    /\ gen_pc' = "closed"
    /\ conn' = "closed"
    /\ UNCHANGED <<otherVars, engine, sendVars, recvVars, backendVars,
                   callerVars, liveVars>>

NextCancel ==
    \/ Next
    \/ GenClose

SpecCancel == Init /\ [][NextCancel]_vars

\* ===================================== RealtimeSTTPipeline (chunk pipeline)
\* no streaming session runs beside the pipeline
SessionIdle ==
    /\ srcLeft = 0
    /\ InitCommon
    /\ is_running = FALSE
    /\ events = <<>>

InitPipe ==
    /\ engine = "pipeline"
    /\ SessionIdle
    /\ ParseIdle
    /\ ConvIdle
    /\ LaterIdle
    /\ p_pc = "start"
    /\ is_cancelled = FALSE
    /\ total_duration \in 0..MaxPipeChunks
    /\ chunk_index = 0
    /\ seg_todo = 0
    /\ all_segments = 0
    /\ pevents = <<>>
    /\ cancelMark = -1

\* yield StreamEvent(type=t, ...)
Yield(ev, t) == Append(ev, t)

\* process_stream up to its first event: mkdtemp, get_duration
PipeStart ==
    /\ p_pc = "start"
    /\ \E mkdtemp_ok \in BOOLEAN :
        IF mkdtemp_ok /\ total_duration > 0
        THEN /\ pevents' = Yield(pevents, "INIT")
             /\ p_pc' = "loop"
        ELSE \* the duration is unknown, or the except clause of the run
             /\ pevents' = Yield(pevents, "ERROR")
             /\ p_pc' = "done"
    /\ UNCHANGED <<outsidePipe, is_cancelled, total_duration, chunk_index,
                   seg_todo, all_segments, cancelMark>>

\* while current_time < total_duration and not self.is_cancelled
PipeLoop ==
    /\ p_pc = "loop"
    /\ IF chunk_index < total_duration /\ ~is_cancelled
       THEN /\ pevents' = Yield(pevents, "CHUNK_START")
            /\ p_pc' = "extract"
       ELSE /\ p_pc' = "final"
            /\ UNCHANGED pevents
    /\ UNCHANGED <<outsidePipe, is_cancelled, total_duration, chunk_index,
                   seg_todo, all_segments, cancelMark>>

\* audio_extractor.extract_audio for this chunk
PipeExtract ==
    /\ p_pc = "extract"
    /\ \E success \in BOOLEAN :
        IF success
        THEN /\ pevents' = Yield(pevents, "CHUNK_AUDIO")
             /\ p_pc' = "stt"
             /\ UNCHANGED chunk_index
        ELSE /\ pevents' = Yield(pevents, "ERROR")
             /\ chunk_index' = chunk_index + 1
             /\ p_pc' = "loop"
    /\ UNCHANGED <<outsidePipe, is_cancelled, total_duration, seg_todo,
                   all_segments, cancelMark>>

\* stt_service.transcribe for this chunk
PipeSTT ==
    /\ p_pc = "stt"
    /\ \/ /\ pevents' = Yield(pevents, "ERROR")
          /\ p_pc' = "chunk_done"
          /\ UNCHANGED seg_todo
       \/ \E n \in 0..MaxSegs :
          /\ seg_todo' = n
          /\ p_pc' = "subs"
          /\ UNCHANGED pevents
    /\ UNCHANGED <<outsidePipe, is_cancelled, total_duration, chunk_index,
                   all_segments, cancelMark>>

\* for seg in result.segments: one SUBTITLE event each, then CHUNK_STT
PipeSubtitle ==
    /\ p_pc = "subs"
    /\ IF seg_todo > 0
       THEN /\ pevents' = Yield(pevents, "SUBTITLE")
            /\ all_segments' = all_segments + 1
            /\ seg_todo' = seg_todo - 1
            /\ UNCHANGED p_pc
       ELSE /\ pevents' = Yield(pevents, "CHUNK_STT")
            /\ p_pc' = "chunk_done"
            /\ UNCHANGED <<all_segments, seg_todo>>
    /\ UNCHANGED <<outsidePipe, is_cancelled, total_duration, chunk_index,
                   cancelMark>>

PipeChunkDone ==
    /\ p_pc = "chunk_done"
    /\ pevents' = Yield(pevents, "CHUNK_COMPLETE")
    /\ chunk_index' = chunk_index + 1
    /\ p_pc' = "loop"
    /\ UNCHANGED <<outsidePipe, is_cancelled, total_duration, seg_todo,
                   all_segments, cancelMark>>

\* the event that closes the run
FinalEvent(nsegs, cancelled) ==
    IF nsegs > 0 /\ ~cancelled THEN "COMPLETE"
    ELSE IF cancelled THEN "ERROR"
    ELSE "COMPLETE"

PipeFinal ==
    /\ p_pc = "final"
    /\ pevents' = Yield(pevents, FinalEvent(all_segments, is_cancelled))
    /\ p_pc' = "done"
    /\ UNCHANGED <<outsidePipe, is_cancelled, total_duration, chunk_index,
                   seg_todo, all_segments, cancelMark>>

\* the run is suspended at a yield or in an await
PipeSuspended ==
    \/ p_pc \in {"loop", "extract", "stt", "chunk_done"}
    \/ p_pc = "subs" /\ pevents[Len(pevents)] = "SUBTITLE"

\* RealtimeSTTPipeline.cancel(), called while the run is suspended
PipeCancel ==
    /\ PipeSuspended
    /\ ~is_cancelled
    /\ is_cancelled' = TRUE
    /\ cancelMark' = Len(pevents)
    /\ UNCHANGED <<outsidePipe, p_pc, total_duration, chunk_index, seg_todo,
                   all_segments, pevents>>

NextPipe ==
    \/ PipeStart
    \/ PipeLoop
    \/ PipeExtract
    \/ PipeSTT
    \/ PipeSubtitle
    \/ PipeChunkDone
    \/ PipeFinal
    \/ PipeCancel

SpecPipe == InitPipe /\ [][NextPipe]_vars

\* ------------------------------ POST /api/realtime/stream (stream_video_sse)
\* event_generator is waiting in `async for` for the next event of
\* stream_process_video, which hands on the events of process_stream
RouteAwaits == p_pc /= "closed" /\ Len(events) = Len(pevents)

\* event_generator: yield event.to_sse(), then break on COMPLETE or ERROR;
\* after the break the pipeline's generator is never resumed
RouteForward ==
    /\ engine = "pipeline"
    /\ Len(events) < Len(pevents)
    /\ events' = Append(events, pevents[Len(events) + 1])
    /\ p_pc' = IF pevents[Len(events) + 1] \in {"COMPLETE", "ERROR"}
               THEN "closed" ELSE p_pc
    /\ UNCHANGED <<parseVars, convVars, laterVars, engine, conn, gen_pc,
                   sendVars, recvVars, backendVars, delivered,
                   subtitle_count, configLog, liveVars, is_cancelled, total_duration, chunk_index,
                   seg_todo, all_segments, pevents, cancelMark>>

\* the pipeline is local to the request: nothing calls its cancel()
NextRoute ==
    \/ RouteAwaits /\ PipeStart
    \/ RouteAwaits /\ PipeLoop
    \/ RouteAwaits /\ PipeExtract
    \/ RouteAwaits /\ PipeSTT
    \/ RouteAwaits /\ PipeSubtitle
    \/ RouteAwaits /\ PipeChunkDone
    \/ RouteAwaits /\ PipeFinal
    \/ RouteForward

SpecRoute == InitPipe /\ [][NextRoute]_vars

\* ============================ HAIVSTTService.transcribe (batch STT result)
LineKinds == {"json", "text", "blank"}

\* output.strip().split("\n"): the first and the last line are not blank,
\* unless the output is empty
StdoutLines ==
    {<<"blank">>} \cup
    UNION {{l \in [1..n -> LineKinds] : l[1] /= "blank" /\ l[n] /= "blank"} :
           n \in 1..MaxLines}

InitParse ==
    /\ engine = "stt_service"
    /\ SessionIdle
    /\ PipeIdle
    /\ ConvIdle
    /\ LaterIdle
    /\ parse_pc = "run"
    /\ out_lines \in StdoutLines
    /\ result_n \in 0..MaxSegs
    /\ stt_segments = <<>>

\* _parse_haiv_result: id = i + 1 for the i-th entry
ParseResult(n) == [i \in 1..n |-> i]

\* the id of a segment read from the JSON line with index i
LineId(segs, i) == i + 1

\* _parse_haiv_output: the body of the loop for line i (counted from 0)
ParseLine(segs, i, kind) ==
    CASE kind = "blank" -> segs
      [] kind = "json" -> Append(segs, LineId(segs, i))
      [] kind = "text" -> Append(segs, Len(segs) + 1)

RECURSIVE ParseFrom(_, _, _)
ParseFrom(l, i, segs) ==
    IF i >= Len(l) THEN segs
    ELSE ParseFrom(l, i + 1, ParseLine(segs, i, l[i + 1]))

\* _parse_haiv_output(output)
ParseOutput(l) == ParseFrom(l, 0, <<>>)

\* transcribe: the result file is parsed if the client wrote one, its
\* stdout otherwise
Transcribe ==
    /\ parse_pc = "run"
    /\ \E result_file_exists \in BOOLEAN :
        stt_segments' = IF result_file_exists THEN ParseResult(result_n)
                    ELSE ParseOutput(out_lines)
    /\ parse_pc' = "done"
    /\ UNCHANGED <<outsideParse, out_lines, result_n>>

NextParse == Transcribe

SpecParse == InitParse /\ [][NextParse]_vars

\* ======================== conversion of a backend segment to a subtitle
\* times are in tenths of a second
AllEngines == FileEngines \cup LiveEngines
Offsets == {0, 100}
Starts == {0, 2, 50}
Ends == {6, 20, 70}
Lengths == {0, 4, 20}
\* engines whose entry point takes enable_diarization
HasDiarizationFlag(e) == e /= "batch"
\* engines whose entry point takes start_offset
HasOffset(e) == e \in FileEngines

\* the message kinds that give subtitles
ConvKinds(e) ==
    CASE e \in {"haiv", "batch", "live_haiv"} -> {"result"}
      [] e = "whisper" -> {"segment", "final", "finaltext"}
      [] e = "live_whisper" -> {"segment"}
      [] e = "wlk" -> {"lines"}

\* the segments (lines, results) a backend can report
Segments(e, k) ==
    CASE e \in {"haiv", "live_haiv"} ->
            [k : {k}, start : Starts \cup {NoValue}, end : {NoValue},
             length : Lengths \cup {NoValue}, speaker : {NoValue},
             changed : {FALSE}]
      [] e = "batch" ->
            [k : {k}, start : Starts \cup {NoValue}, end : {NoValue},
             length : Lengths \cup {NoValue}, speaker : {NoValue, 0, 2},
             changed : {FALSE}]
      [] e = "whisper" /\ k = "finaltext" -> {[NoSegment EXCEPT !.k = k]}
      [] e = "whisper" /\ k /= "finaltext" ->
            [k : {k}, start : Starts \cup {NoValue}, end : Ends \cup {NoValue},
             length : {NoValue}, speaker : {NoValue}, changed : BOOLEAN]
      [] e = "live_whisper" ->
            [k : {k}, start : Starts, end : Ends, length : {NoValue},
             speaker : {NoValue, 0, 1}, changed : BOOLEAN]
      [] e = "wlk" ->
            [k : {k}, start : Starts \cup {NoValue, BadValue},
             end : Ends \cup {NoValue, BadValue}, length : {NoValue},
             speaker : {NoValue, 0, 2}, changed : {FALSE}]

\* dict.get(key, default)
Get(v, default) == IF v = NoValue THEN default ELSE v
Max(a, b) == IF a >= b THEN a ELSE b

\* realtime_stt.py, haiv_stt_client.py: segment-start and segment-length
HaivTimes(m, off) ==
    LET seg_start == Get(m.start, 0)
        seg_length == Get(m.length, 0)
    IN <<off + seg_start, off + seg_start + seg_length>>

\* whisper_stt_client.py: a span under one second becomes three seconds
WhisperTimes(m, off) ==
    LET seg_start == Get(m.start, 0)
        seg_end0 == Get(m.end, seg_start + 30)
        seg_end == IF seg_end0 - seg_start < 10 THEN seg_start + 30
                   ELSE seg_end0
    IN <<off + seg_start, off + seg_end>>

\* whisper_stt_client.py: a final message with text only
FallbackTimes(cat) == <<Max(0, cat - 30), Max(0, cat - 30) + 30>>

\* whisper_livekit_client.py: the line's own start and end, converted with
\* float(); both fall back to the audio clock when either is rejected
WlkTimes(m, cat) ==
    IF m.start = BadValue \/ m.end = BadValue THEN <<cat, cat + 30>>
    ELSE <<Get(m.start, cat), Get(m.end, cat + 30)>>

Times(e, m, off, cat) ==
    CASE e \in {"haiv", "batch"} -> HaivTimes(m, off)
      [] e = "whisper" /\ m.k = "finaltext" -> FallbackTimes(cat)
      [] e = "whisper" /\ m.k /= "finaltext" -> WhisperTimes(m, off)
      [] e = "wlk" -> WlkTimes(m, cat)
      [] e \in LiveEngines -> <<0, 0>>

\* current_speaker after the segment
NextSpeaker(e, m, cur) ==
    CASE e = "whisper" /\ m.k /= "finaltext" ->
            IF m.changed THEN (IF cur = 1 THEN 2 ELSE 1) ELSE cur
      [] e = "live_whisper" -> IF m.changed THEN Get(m.speaker, 0) ELSE cur
      [] OTHER -> cur

\* the subtitle's speaker: n stands for the label of speaker n, NoValue
\* for None
Speaker(e, m, cur, diar) ==
    CASE e \in {"haiv", "live_haiv"} -> NoValue
      [] e = "batch" -> m.speaker
      [] e = "whisper" /\ m.k = "finaltext" -> NoValue
      [] e = "whisper" /\ m.k /= "finaltext" ->
            IF diar THEN NextSpeaker(e, m, cur) ELSE NoValue
      [] e = "live_whisper" ->
            IF diar THEN NextSpeaker(e, m, cur) + 1 ELSE NoValue
      [] e = "wlk" ->
            IF Get(m.speaker, 0) > 0 THEN Get(m.speaker, 1) ELSE NoValue

\* RealtimeSubtitle(...) / STTResult(...) for segment m
Convert(e, m, off, cat, cur, diar) ==
    [start_time |-> Times(e, m, off, cat)[1],
     end_time |-> Times(e, m, off, cat)[2],
     speaker |-> Speaker(e, m, cur, diar)]

InitConv ==
    /\ engine \in AllEngines
    /\ SessionIdle
    /\ PipeIdle
    /\ ParseIdle
    /\ LaterIdle
    /\ start_offset \in (IF HasOffset(engine) THEN Offsets ELSE {0})
    /\ enable_diarization \in
            (IF HasDiarizationFlag(engine) THEN BOOLEAN ELSE {TRUE})
    /\ current_audio_time \in {0, start_offset + 20}
    /\ current_speaker = (IF engine = "whisper" THEN 1 ELSE 0)
    /\ msg_in = NoSegment
    /\ subtitle = NoSubtitle
    /\ emitted = 0

\* the receive loop turns one reported segment into a subtitle
ConvEmit ==
    /\ emitted < MaxEmit
    /\ \E k \in ConvKinds(engine) : \E m \in Segments(engine, k) :
        /\ msg_in' = m
        /\ subtitle' = Convert(engine, m, start_offset, current_audio_time,
                               current_speaker, enable_diarization)
        /\ current_speaker' = NextSpeaker(engine, m, current_speaker)
    /\ emitted' = emitted + 1
    /\ UNCHANGED <<outsideConv, start_offset, enable_diarization,
                   current_audio_time>>

NextConv == ConvEmit

SpecConv == InitConv /\ [][NextConv]_vars

\* ================== WhisperLiveKit: the receive loop over one transcript
\* the session is connected, the config wait is over, both tasks exist
InitLines ==
    /\ engine = "wlk"
    /\ srcLeft \in 0..MaxChunks
    /\ conn = "open"
    /\ gen_pc = "get"
    /\ send_pc = "spawn"
    /\ recv_pc = "wait"
    /\ chunk = 0
    /\ srcEOF = FALSE
    /\ sendRaised = FALSE
    /\ sent = <<>>
    /\ send_done = FALSE
    /\ proc = "none"
    /\ backendLog = <<>>
    /\ inbox = <<>>
    /\ silent = FALSE
    /\ configLog = <<>>
    /\ readLog = <<>>
    /\ completionRead = FALSE
    /\ recvEnd = "none"
    /\ segment_id = 0
    /\ last_lines_count = 0
    /\ results_queue = <<>>
    /\ putLog = <<>>
    /\ delivered = <<>>
    /\ events = <<"init">>
    /\ subtitle_count = 0
    /\ is_running = FALSE
    /\ stop_pc = "idle"
    /\ bufLo = 0
    /\ bufHi = 0
    /\ clientPos = 0
    /\ clientState = "open"
    /\ frames = 0
    /\ PipeIdle
    /\ ParseIdle
    /\ ConvIdle
    /\ LaterIdle

\* the backend sends its transcript so far: a JSON message whose "lines"
\* array has s entries (none when the key is missing)
BackendLines ==
    /\ engine = "wlk"
    /\ conn = "open"
    /\ Len(backendLog) < MaxLineMsgs
    /\ \E s \in 0..MaxSegs :
        LET m == [k |-> "lines", n |-> Len(backendLog) + 1, segs |-> s]
        IN /\ backendLog' = Append(backendLog, m)
           /\ inbox' = Append(inbox, m)
    /\ UNCHANGED <<otherVars, engine, conn, gen_pc, sendVars, recvVars, silent,
                   callerVars, liveVars>>

NextLines ==
    \/ BackendLines
    \/ RecvMsg
    \/ GenGet

SpecLines == InitLines /\ [][NextLines]_vars

\* ===================================== postprocessing.py: text functions
\* A text is a sequence of lexemes.  A lexeme is one character (" ", ".",
\* "[", "]", "note" for the note sign U+266A, "nl" for a line feed) or a
\* word that the tables of postprocessing.py treat as a unit; CharLen is
\* its length in characters.  Romanised words stand for the Korean ones:
\* gamsahamnida (thank you), hoeuireul (the meeting), gaepan (a profanity
\* entry), bokjibu / bogeon (the two halves of the ministry's name).
CharLen(x) ==
    CASE x \in {"gamsahamnida", "music"} -> 5
      [] x = "eiai" -> 4
      [] x \in {"hoeuireul", "bokjibu", "***"} -> 3
      [] x \in {"gaepan", "bogeon", "baksu", "AI"} -> 2
      [] OTHER -> 1

RECURSIVE TextLen(_)
\* len(text)
TextLen(s) == IF s = <<>> THEN 0 ELSE CharLen(Head(s)) + TextLen(Tail(s))

\* every text of at most n lexemes over the vocabulary V
TextsOver(V, n) == UNION {[1..k -> V] : k \in 0..n}

RECURSIVE LStrip(_, _)
LStrip(s, cs) ==
    IF s /= <<>> /\ Head(s) \in cs THEN LStrip(Tail(s), cs) ELSE s

RECURSIVE RStrip(_, _)
RStrip(s, cs) ==
    IF s /= <<>> /\ s[Len(s)] \in cs
    THEN RStrip(SubSeq(s, 1, Len(s) - 1), cs)
    ELSE s

\* str.strip(chars)
StripChars(s, cs) == RStrip(LStrip(s, cs), cs)

WhiteSpace == {" ", "nl"}

\* str.strip()
Strip(s) == StripChars(s, WhiteSpace)

\* str.lower() of one lexeme; X is the one letter that has two cases
Lower(x) == IF x = "X" THEN "x" ELSE x

\* the literal `pat` occurs in s at position i, under re.IGNORECASE
MatchAt(s, i, pat) ==
    /\ i + Len(pat) - 1 <= Len(s)
    /\ \A k \in 1..Len(pat) : Lower(s[i + k - 1]) = Lower(pat[k])

RECURSIVE SubFrom(_, _, _, _)
SubFrom(s, i, pat, rep) ==
    IF i > Len(s) THEN <<>>
    ELSE IF MatchAt(s, i, pat)
         THEN rep \o SubFrom(s, i + Len(pat), pat, rep)
         ELSE <<s[i]>> \o SubFrom(s, i + 1, pat, rep)

\* re.compile(re.escape(pat)).sub(rep, s) for a non-empty literal: the
\* matches are taken left to right and do not overlap
Sub(s, pat, rep) == SubFrom(s, 1, pat, rep)

RECURSIVE FindAllFrom(_, _, _)
FindAllFrom(s, i, pat) ==
    IF i > Len(s) THEN 0
    ELSE IF MatchAt(s, i, pat)
         THEN 1 + FindAllFrom(s, i + Len(pat), pat)
         ELSE FindAllFrom(s, i + 1, pat)

\* len(pattern.findall(s)) for a non-empty literal
FindAll(s, pat) == FindAllFrom(s, 1, pat)

\* the literal occurs somewhere in s
Occurs(s, pat) == \E i \in 1..Len(s) : MatchAt(s, i, pat)

RECURSIVE CollapseSpaces(_)
\* re.sub(r'\s+', ' ', text)
CollapseSpaces(s) ==
    IF s = <<>> THEN <<>>
    ELSE IF Head(s) \in WhiteSpace
         THEN <<" ">> \o CollapseSpaces(LStrip(s, WhiteSpace))
         ELSE <<Head(s)>> \o CollapseSpaces(Tail(s))

\* '[' note ']': the label of music
MusicLabel == <<"[", "note", "]">>

RECURSIVE NoteRuns(_)
\* re.sub(r'[notes]+', label, result): each run of note signs
NoteRuns(s) ==
    IF s = <<>> THEN <<>>
    ELSE IF Head(s) = "note"
         THEN MusicLabel \o NoteRuns(LStrip(s, {"note"}))
         ELSE <<Head(s)>> \o NoteRuns(Tail(s))

\* how many lexemes r'\[?music\]?' matches at position i (0: no match)
MusicWordAt(s, i) ==
    LET at(j) == IF j <= Len(s) THEN s[j] ELSE "end"
    IN  IF at(i) = "[" /\ at(i + 1) = "music"
        THEN IF at(i + 2) = "]" THEN 3 ELSE 2
        ELSE IF at(i) = "music"
             THEN IF at(i + 1) = "]" THEN 2 ELSE 1
             ELSE 0

RECURSIVE MusicWordsFrom(_, _)
MusicWordsFrom(s, i) ==
    IF i > Len(s) THEN <<>>
    ELSE IF MusicWordAt(s, i) > 0
         THEN MusicLabel \o MusicWordsFrom(s, i + MusicWordAt(s, i))
         ELSE <<s[i]>> \o MusicWordsFrom(s, i + 1)

\* re.sub(r'\[?music\]?|\(music\)|...', label, result): the vocabulary has
\* no parenthesis and no "playing", so only the first alternative matches
MusicWords(s) == MusicWordsFrom(s, 1)

RECURSIVE SkipLabels(_)
\* what is left of s after the longest prefix matching (label \s*)+
SkipLabels(s) ==
    IF MatchAt(s, 1, MusicLabel)
    THEN SkipLabels(LStrip(SubSeq(s, 4, Len(s)), WhiteSpace))
    ELSE s

RECURSIVE MergeLabels(_)
\* re.sub(r'(label\s*)+', label + ' ', result)
MergeLabels(s) ==
    IF s = <<>> THEN <<>>
    ELSE IF MatchAt(s, 1, MusicLabel)
         THEN MusicLabel \o <<" ">> \o MergeLabels(SkipLabels(s))
         ELSE <<Head(s)>> \o MergeLabels(Tail(s))

replace_music_with_label(text) ==
    Strip(MergeLabels(MusicWords(NoteRuns(text))))

\* clean_text(text) with preserve_music_labels left at True
clean_text(text) ==
    IF text = <<>> THEN <<>>
    ELSE StripChars(replace_music_with_label(CollapseSpaces(Strip(text))),
                    {".", ",", "!", "?", " "})

RECURSIVE Words(_)
\* text.split(): the maximal runs of lexemes that are not white space
Words(s) ==
    LET t == LStrip(s, WhiteSpace)
        n == IF \E i \in 1..Len(t) : t[i] \in WhiteSpace
             THEN (CHOOSE i \in 1..Len(t) :
                      /\ t[i] \in WhiteSpace
                      /\ \A j \in 1..(i - 1) : t[j] \notin WhiteSpace) - 1
             ELSE Len(t)
    IN  IF t = <<>> THEN <<>>
        ELSE <<SubSeq(t, 1, n)>> \o Words(SubSeq(t, n + 1, Len(t)))

\* lexemes made of the characters of the class of the symbols-only pattern
SymbolLexemes == {" ", "nl", ".", ",", "!", "?", "note", "[", "]", "***"}

\* r'^[\s\.\,\!\?\-\~ notes ... \[\]...]+$': nothing but symbols
OnlySymbols(s) == s /= <<>> /\ \A i \in 1..Len(s) : s[i] \in SymbolLexemes

\* r'^\[.*\]$'
Bracketed(s) ==
    /\ Len(s) >= 2
    /\ s[1] = "["
    /\ s[Len(s)] = "]"
    /\ \A i \in 1..Len(s) : s[i] /= "nl"

\* r'^note.*note$'
BetweenNotes(s) ==
    /\ Len(s) >= 2
    /\ s[1] = "note"
    /\ s[Len(s)] = "note"
    /\ \A i \in 1..Len(s) : s[i] /= "nl"

\* r'^gamsahamnida\.?$'
ThankYou(s) == s \in {<<"gamsahamnida">>, <<"gamsahamnida", ".">>}

RECURSIVE RepeatsOf(_, _)
\* r matches (\s*u)* to its end
RepeatsOf(u, r) ==
    \/ r = <<>>
    \/ \E j \in 0..Len(r) :
          /\ \A i \in 1..j : r[i] \in WhiteSpace
          /\ MatchAt(r, j + 1, u)
          /\ RepeatsOf(u, SubSeq(r, j + Len(u) + 1, Len(r)))

\* r'^(.{2,5})\s*\1(\s*\1)*$': a unit of two to five characters, repeated
RepeatedUnit(s) ==
    \E k \in 1..Len(s) :
        LET u == SubSeq(s, 1, k)
            r == SubSeq(s, k + 1, Len(s))
        IN  /\ TextLen(u) \in 2..5
            /\ \A i \in 1..k : u[i] /= "nl"
            /\ r /= <<>>
            /\ RepeatsOf(u, r)

\* [a-zA-Z]{2,}: one or more latin words of the vocabulary, joined
LatinWord(w) == w /= <<>> /\ \A i \in 1..Len(w) : w[i] = "music"

RECURSIVE SplitOn(_, _)
\* str.split(sep) for a one-lexeme separator
SplitOn(s, sep) ==
    IF \E i \in 1..Len(s) : s[i] = sep
    THEN LET i == CHOOSE i \in 1..Len(s) :
                     s[i] = sep /\ \A j \in 1..(i - 1) : s[j] /= sep
         IN  <<SubSeq(s, 1, i - 1)>> \o SplitOn(SubSeq(s, i + 1, Len(s)), sep)
    ELSE <<s>>

\* r'^[a-zA-Z]{2,}( [a-zA-Z]{2,}){0,4}[.!]?$': one to five latin words
LatinWords(s) ==
    LET body == IF s /= <<>> /\ s[Len(s)] \in {".", "!"}
                THEN SubSeq(s, 1, Len(s) - 1) ELSE s
        ws == SplitOn(body, " ")
    IN  /\ Len(ws) \in 1..5
        /\ \A i \in 1..Len(ws) : LatinWord(ws[i])

\* the entries of HALLUCINATION_PATTERNS that a text over the vocabulary
\* can match, each anchored at the start by pattern.match
HALLUCINATION_PATTERNS(s) ==
    \/ LatinWords(s)
    \/ ThankYou(s)
    \/ RepeatedUnit(s)
    \/ OnlySymbols(s)
    \/ Bracketed(s)
    \/ BetweenNotes(s)

\* is_hallucination(text) with no dynamic pattern loaded
is_hallucination(text) ==
    LET t == Strip(text)
        words == Words(t)
    IN  \/ text = <<>>
        \/ TextLen(t) <= 2
        \/ HALLUCINATION_PATTERNS(t)
        \/ /\ Len(words) >= 3
           /\ \E i \in 1..(Len(words) - 2) :
                 words[i] = words[i + 1] /\ words[i + 1] = words[i + 2]
        \/ /\ Len(words) >= 2
           /\ \A i \in 1..Len(words) : words[i] = words[1]

\* the entries of the built-in tables that the vocabularies can spell, in
\* table order: bokjibu -> bogeon bokjibu (the ministry's short name to its
\* full name), baksu -> [baksu] (applause), eiai -> AI
GOVERNMENT_CORRECTION_DICT ==
    <<[wrong |-> <<"bokjibu">>, correct |-> <<"bogeon", "bokjibu">>]>>
PROPER_NOUN_DICT ==
    <<[wrong |-> <<"baksu">>, correct |-> <<"[", "baksu", "]">>]>>
ABBREVIATION_DICT ==
    <<[wrong |-> <<"eiai">>, correct |-> <<"AI">>]>>

RECURSIVE ApplyTable(_, _)
\* for wrong, correct in table: result = pattern.sub(correct, result)
ApplyTable(s, table) ==
    IF table = <<>> THEN s
    ELSE ApplyTable(Sub(s, Head(table).wrong, Head(table).correct),
                    Tail(table))

\* apply_dictionary_mapping(text) with no dynamic entry loaded: government
\* terms, then proper nouns, then abbreviations; no text over the
\* vocabularies holds a digit, so NUMBER_PATTERNS change nothing
apply_dictionary_mapping(text) ==
    IF text = <<>> THEN text
    ELSE ApplyTable(ApplyTable(ApplyTable(text, GOVERNMENT_CORRECTION_DICT),
                               PROPER_NOUN_DICT),
                    ABBREVIATION_DICT)

\* the keys of a correction table
KeysOf(table) == {table[i].wrong : i \in 1..Len(table)}

\* one correction table with every entry of its dynamic part applied
ApplyMergedUnguarded(s, static, dynamic) ==
    ApplyTable(ApplyTable(s, static), dynamic)

\* one correction table: the static entries, then the dynamic entries
\* whose key is not a static key ("if wrong not in ..._DICT")
ApplyMerged(s, static, dynamic) ==
    ApplyTable(ApplyTable(s, static),
               SelectSeq(dynamic, LAMBDA e : e.wrong \notin KeysOf(static)))

\* apply_dictionary_mapping(text, apply_government_dict) with the dynamic
\* tables _load_json_government_dict(), _load_json_proper_nouns() and
\* _load_json_abbreviations() return
apply_dictionary_mapping_json(text, apply_government_dict, json) ==
    IF text = <<>> THEN text
    ELSE LET government ==
                 IF apply_government_dict
                 THEN ApplyMerged(text, GOVERNMENT_CORRECTION_DICT,
                                  json.government_dict)
                 ELSE text
         IN  ApplyMerged(ApplyMerged(government, PROPER_NOUN_DICT,
                                     json.proper_nouns),
                         ABBREVIATION_DICT, json.abbreviations)

\* the entries of PROFANITY_PATTERNS the vocabularies can spell, in table
\* order: gae-sae-kki, gae-sae, sae-kki, gae-X-X, gaepan, X-bal
PROFANITY_PATTERNS ==
    <<<<"gae", "sae", "kki">>, <<"gae", "sae">>, <<"sae", "kki">>,
      <<"gae", "X", "X">>, <<"gaepan">>, <<"X", "bal">>>>

\* static patterns + [p for p in json_profanity if p not in static]
MergedProfanity(json_profanity) ==
    PROFANITY_PATTERNS \o
        SelectSeq(json_profanity,
                  LAMBDA p : \A i \in 1..Len(PROFANITY_PATTERNS) :
                                 PROFANITY_PATTERNS[i] /= p)

Mask == <<"***">>

RECURSIVE FilterWith(_, _, _)
\* the loop of filter_profanity over the compiled patterns, in table order
FilterWith(s, n, patterns) ==
    IF patterns = <<>> THEN [text |-> s, count |-> n]
    ELSE FilterWith(Sub(s, Head(patterns), Mask),
                    n + FindAll(s, Head(patterns)),
                    Tail(patterns))

\* filter_profanity(text) over the table `patterns`
filter_profanity(text, patterns) ==
    IF text = <<>> THEN [text |-> text, count |-> 0]
    ELSE FilterWith(text, 0, patterns)

\* apply_broadcast_safety_filter(text): no text over the vocabulary holds a
\* digit or a latin capital, so filter_sensitive_info changes nothing
apply_broadcast_safety_filter(text) ==
    IF text = <<>> THEN text
    ELSE filter_profanity(text, MergedProfanity(<<>>)).text

RECURSIVE BreaksFrom(_, _)
\* r'(\S)\s+(gamsahamnida)' -> r'\1\n\2', matches taken left to right
BreaksFrom(s, i) ==
    IF i > Len(s) THEN <<>>
    ELSE LET rest == SubSeq(s, i + 1, Len(s))
             after == LStrip(rest, WhiteSpace)
         IN  IF /\ s[i] \notin WhiteSpace
                /\ Len(after) < Len(rest)
                /\ after /= <<>>
                /\ Head(after) = "gamsahamnida"
             THEN <<s[i], "nl", "gamsahamnida">>
                      \o BreaksFrom(s, Len(s) - Len(after) + 2)
             ELSE <<s[i]>> \o BreaksFrom(s, i + 1)

RECURSIVE TidyBreaks(_)
\* re.sub(r'\n+', '\n', ..) then re.sub(r'\s*\n\s*', '\n', ..)
TidyBreaks(s) ==
    IF s = <<>> THEN <<>>
    ELSE LET after == LStrip(s, WhiteSpace)
             run == SubSeq(s, 1, Len(s) - Len(after))
         IN  IF \E i \in 1..Len(run) : run[i] = "nl"
             THEN <<"nl">> \o TidyBreaks(after)
             ELSE <<Head(s)>> \o TidyBreaks(Tail(s))

\* detect_and_insert_speaker_breaks(text)
detect_and_insert_speaker_breaks(text) ==
    IF text = <<>> \/ TextLen(text) < 5 THEN text
    ELSE TidyBreaks(BreaksFrom(text, 1))

\* postprocess_text(text, detect_speaker_change): the text it returns and
\* the stages it ran
postprocess_text(text, detect_speaker_change) ==
    LET cleaned == clean_text(text)
        mapped == apply_dictionary_mapping(cleaned)
        safe == apply_broadcast_safety_filter(mapped)
    IN  IF text = <<>> THEN [text |-> <<>>, stages |-> {}]
        ELSE IF is_hallucination(cleaned)
        THEN [text |-> <<>>, stages |-> {"clean", "hallucination"}]
        ELSE IF detect_speaker_change
        THEN [text |-> detect_and_insert_speaker_breaks(safe),
              stages |-> {"clean", "hallucination", "dictionary",
                          "safety", "breaks"}]
        ELSE [text |-> safe,
              stages |-> {"clean", "hallucination", "dictionary", "safety"}]

\* ------------------------------------------------- split_for_subtitle
\* Positions are Python's: the character at index p of s is s[p + 1].
Min(a, b) == IF a < b THEN a ELSE b

\* s.find(pat, lo): the first index at or after lo where pat occurs, or -1
Find(s, pat, lo) ==
    LET hits == {p \in lo..(Len(s) - Len(pat)) : MatchAt(s, p + 1, pat)}
    IN  IF hits = {} THEN -1
        ELSE CHOOSE p \in hits : \A q \in hits : p <= q

\* s.rfind(pat, lo, hi): the last index where pat occurs inside s[lo:hi]
RFind(s, pat, lo, hi) ==
    LET hits == {p \in lo..(Min(hi, Len(s)) - Len(pat)) :
                    MatchAt(s, p + 1, pat)}
    IN  IF hits = {} THEN -1
        ELSE CHOOSE p \in hits : \A q \in hits : q <= p

\* the break points of split_for_subtitle, in the order the loops try them;
\* "ne" and "ye" are the two response words
SentenceEnds == <<<<".", " ">>, <<"?", " ">>, <<"!", " ">>>>
ResponseMarkers ==
    <<<<"ne", ",", " ">>, <<"ye", ",", " ">>, <<"ne", ",">>, <<"ye", ",">>>>

RECURSIVE FirstSentenceEnd(_, _, _, _)
\* priority 1: for punct in [...]: idx = search_text.rfind(punct)
FirstSentenceEnd(search, ps, lo, hi) ==
    IF ps = <<>> THEN -1
    ELSE LET idx == RFind(search, Head(ps), 0, Len(search))
         IN  IF idx > lo /\ idx <= hi THEN idx + Len(Head(ps))
             ELSE FirstSentenceEnd(search, Tail(ps), lo, hi)

RECURSIVE FirstMarker(_, _, _, _)
\* priority 2: for marker in [...]: idx = search_text.find(marker, min_length)
FirstMarker(search, ms, lo, hi) ==
    IF ms = <<>> THEN -1
    ELSE LET idx == Find(search, Head(ms), lo)
         IN  IF idx > 0 /\ idx <= hi THEN idx + Len(Head(ms))
             ELSE FirstMarker(search, Tail(ms), lo, hi)

\* the split point chosen for `remaining`, and whether it is the forced one;
\* priority 3 looks for a conjunction, which no text over the alphabet holds
BestSplit(remaining, max_len, min_len) ==
    LET search == SubSeq(remaining, 1, Min(Len(remaining), max_len + 20))
        p1 == FirstSentenceEnd(search, SentenceEnds, min_len, max_len)
        p2 == FirstMarker(search, ResponseMarkers, min_len, max_len)
        c4 == RFind(search, <<",", " ">>, min_len, max_len)
        c5 == RFind(search, <<" ">>, min_len, max_len)
    IN  IF p1 /= -1 THEN [at |-> p1, forced |-> FALSE]
        ELSE IF p2 /= -1 THEN [at |-> p2, forced |-> FALSE]
        ELSE IF c4 > 0 THEN [at |-> c4 + 2, forced |-> FALSE]
        ELSE IF c5 > 0 THEN [at |-> c5 + 1, forced |-> FALSE]
        ELSE [at |-> max_len, forced |-> TRUE]

RECURSIVE SplitLoop(_, _, _)
\* the while loop: the lines cut off `remaining`, each with its forced flag
SplitLoop(remaining, max_len, min_len) ==
    LET r == Strip(remaining)
        b == BestSplit(r, max_len, min_len)
        line == Strip(SubSeq(r, 1, b.at))
        rest == SubSeq(r, b.at + 1, Len(r))
    IN  IF r = <<>> THEN <<>>
        ELSE IF Len(r) <= max_len THEN <<[line |-> r, forced |-> FALSE]>>
        ELSE (IF line /= <<>>
              THEN <<[line |-> line, forced |-> b.forced]>> ELSE <<>>)
                 \o SplitLoop(rest, max_len, min_len)

RECURSIVE MergeShort(_, _, _, _)
\* the merge loop: a line shorter than min_length joins the line before it
\* when the two fit in max_length
MergeShort(lines, merged, max_len, min_len) ==
    IF lines = <<>> THEN merged
    ELSE LET l == Head(lines)
             n == Len(merged)
         IN  IF /\ merged /= <<>>
                /\ Len(l.line) < min_len
                /\ Len(merged[n].line) + Len(l.line) + 1 <= max_len
             THEN MergeShort(Tail(lines),
                     [merged EXCEPT ![n] =
                         [line |-> merged[n].line \o <<" ">> \o l.line,
                          forced |-> merged[n].forced]],
                     max_len, min_len)
             ELSE MergeShort(Tail(lines), Append(merged, l), max_len, min_len)

\* split_for_subtitle(text, max_length, min_length) over one-character
\* lexemes
split_for_subtitle(text, max_len, min_len) ==
    IF text = <<>> THEN <<>>
    ELSE IF Len(Strip(text)) <= max_len
    THEN <<[line |-> Strip(text), forced |-> FALSE]>>
    ELSE MergeShort(SplitLoop(Strip(text), max_len, min_len), <<>>,
                    max_len, min_len)

\* ----------------------------------- the text functions and their callers
\* detect_music(text) with the default probabilities: a note sign or the
\* token [music]; no text over the vocabulary matches a lyric or an anthem
\* pattern
detect_music(text) ==
    /\ text /= <<>>
    /\ \/ \E i \in 1..Len(text) : text[i] = "note"
       \/ Occurs(text, <<"[", "music", "]">>)

\* the heuristic of detect_music on no_speech_prob = nsp / Grain and
\* avg_logprob = alp / Grain: the guard, and twice the confidence in grains
HeuristicGuard(nsp, alp) == 10 * nsp > 7 * Grain /\ 10 * alp < -9 * Grain
Confidence2(nsp, alp) == nsp + (Grain - (IF alp < 0 THEN -alp ELSE alp))

\* a heuristic that takes a high avg_logprob for a sign of music
detect_music_confident(text, nsp, alp) ==
    \/ detect_music(text)
    \/ /\ text /= <<>>
       /\ 10 * nsp > 7 * Grain /\ 10 * alp > -9 * Grain
       /\ 10 * Confidence2(nsp, alp) > 12 * Grain

\* detect_music(text, no_speech_prob, avg_logprob): the patterns, then
\* the heuristic, music when the confidence exceeds 0.6
detect_music_scored(text, nsp, alp) ==
    \/ detect_music(text)
    \/ /\ text /= <<>>
       /\ HeuristicGuard(nsp, alp)
       /\ 10 * Confidence2(nsp, alp) > 12 * Grain

\* filter_segments([{"text": text}]): the texts of the segments it keeps
filter_segments(text) ==
    LET cleaned == clean_text(text)
    IN  IF detect_music(text) THEN <<MusicLabel>>
        ELSE IF cleaned = <<>> \/ is_hallucination(cleaned) THEN <<>>
        ELSE <<apply_dictionary_mapping(cleaned)>>

\* what a client does with the text of one final result: the text of the
\* subtitle it puts on the queue, or no subtitle
\*   haiv, batch: the transcript as received, unless it is blank
\*   whisper, live: the stripped text, unless it is empty
\*   wlk: is_hallucination, then postprocess_text, on the stripped text
receive_results(e, text) ==
    LET raw_text == Strip(text)
        processed_text == postprocess_text(raw_text, FALSE).text
    IN  CASE e \in {"haiv", "batch"} ->
               [put |-> Strip(text) /= <<>>, text |-> text]
          [] e \in {"whisper", "live_haiv", "live_whisper"} ->
               [put |-> raw_text /= <<>>, text |-> raw_text]
          [] e = "wlk" ->
               IF is_hallucination(raw_text) \/ processed_text = <<>>
               THEN [put |-> FALSE, text |-> <<>>]
               ELSE [put |-> TRUE, text |-> processed_text]

\* the vocabularies the inputs are drawn from
TranscriptVocabulary ==
    {"gamsahamnida", "hoeuireul", "gaepan", "bokjibu", "music", "note",
     "[", "]", " ", "."}
ProfanityVocabulary == {"gae", "sae", "kki", "X", "x", "bal"}
DictionaryVocabulary == {"bokjibu", "bogeon", "baksu", "eiai", " "}
SubtitleAlphabet == {"a", " ", ".", ","}
MaxLengths == {2, 3}
MinLengths == {0, 1}
JsonProfanity == {<<>>, <<<<"x", "bal">>>>}

\* the dynamic part of a correction table, a dict in file order: an entry
\* under the key of the static entry with another replacement, and an
\* entry under a key the static part does not have
JsonTables(static) ==
    LET entries == {[wrong |-> static[1].wrong, correct |-> <<"eiai", "baksu">>],
                    [wrong |-> <<"bogeon">>, correct |-> <<"baksu">>]}
    IN  {t \in UNION {[1..k -> entries] : k \in 0..MaxEntries} :
             \A i, j \in 1..Len(t) : t[i].wrong = t[j].wrong => i = j}
JsonDictionaries ==
    [government_dict : JsonTables(GOVERNMENT_CORRECTION_DICT),
     proper_nouns : JsonTables(PROPER_NOUN_DICT),
     abbreviations : JsonTables(ABBREVIATION_DICT)]

\* the utterances of a Whisper session, and some of them in spoken order
Utterances == 1..MaxUtterances
Batches ==
    {b \in UNION {[1..k -> Utterances] : k \in 0..MaxUtterances} :
         \A i, j \in 1..Len(b) : i < j => b[i] < b[j]}

\* what the Whisper backend sends: a "segment" event with the text of one
\* utterance (0: a blank text), a "final" message with the utterances as
\* "segments", as lines of "text" or as both, and messages of other types
WhisperMessages ==
    [type : {"segment"}, utterance : Utterances \cup {0},
     segments : {<<>>}, lines : {<<>>}]
    \cup {m \in [type : {"final"}, utterance : {0}, segments : Batches,
                  lines : Batches] :
              m.segments = <<>> \/ m.lines \in {<<>>, m.segments}}
    \cup [type : {"other"}, utterance : {0}, segments : {<<>>},
          lines : {<<>>}]

\* the messages of one session: no utterance in two segment events, at most
\* one final message
WhisperSessions ==
    {ms \in UNION {[1..k -> WhisperMessages] : k \in 0..MaxBatch} :
         \A i, j \in 1..Len(ms) :
             i < j => /\ ~(ms[i].type = "final" /\ ms[j].type = "final")
                      /\ ~(/\ ms[i].type = "segment"
                           /\ ms[j].type = "segment"
                           /\ ms[i].utterance = ms[j].utterance
                           /\ ms[i].utterance /= 0)}

\* WhisperStreamingSTT's receive task, one message: the utterances it puts
\* on the results queue
WhisperPut(m) ==
    CASE m.type = "segment" ->
           IF m.utterance = 0 THEN <<>> ELSE <<m.utterance>>
      [] m.type = "final" ->
           IF m.segments /= <<>> THEN m.segments ELSE m.lines
      [] OTHER -> <<>>

RECURSIVE whisper_receive_results(_)
\* async for message in ws: every utterance put on the queue, in order
whisper_receive_results(messages) ==
    IF messages = <<>> THEN <<>>
    ELSE WhisperPut(Head(messages))
             \o whisper_receive_results(Tail(messages))

\* the HAIV messages a client can read: "status" absent, 0 or an error
\* code; "result" present or not, and in it "final" absent, false or true,
\* no or one hypothesis, with an empty, a blank or a spoken transcript
HaivResponses ==
    [status : {NoValue, 0, 9}, result : BOOLEAN,
     final : {"absent", "false", "true"}, hypotheses : 0..1,
     transcript : {<<>>, <<" ">>, <<"hoeuireul">>}]

\* whether a client makes a subtitle of a HAIV message: the receive tasks of
\* HAIVStreamingSTT and HAIVSTTClient, and LiveSTTService._parse_haiv_response
parse_haiv_response(e, response) ==
    LET hypotheses == IF response.result THEN response.hypotheses ELSE 0
        transcript == response.transcript
    IN  IF e \in {"haiv", "batch"}
        THEN /\ response.status /= NoValue
             /\ response.result
             /\ response.final = "true"
             /\ hypotheses > 0
             /\ Strip(transcript) /= <<>>
        ELSE /\ response.status = 0
             /\ hypotheses > 0
             /\ Strip(transcript) /= <<>>

\* what an entry of a dynamic table can be: a string that is a regular
\* expression, a string that is none (an unbalanced parenthesis), and a JSON
\* value that is not a string
EntryKinds == {"regex", "not_regex", "not_string"}
DynamicTables == UNION {[1..k -> EntryKinds] : k \in 0..MaxEntries}

\* the loop over all_patterns of _get_compiled_patterns from the dynamic
\* entry i on; 0 stands for the static patterns, compiled first.  re.compile
\* raises re.error on a string that is no regular expression, which is caught
\* and skipped, and TypeError on a value that is not a string, which is not
RECURSIVE CompilePatterns(_, _, _)
CompilePatterns(json_patterns, i, cache) ==
    IF i > Len(json_patterns) THEN [raised |-> FALSE, applied |-> cache]
    ELSE IF json_patterns[i] = "not_string"
    THEN [raised |-> TRUE, applied |-> {}]
    ELSE IF json_patterns[i] = "not_regex"
    THEN CompilePatterns(json_patterns, i + 1, cache)
    ELSE CompilePatterns(json_patterns, i + 1, cache \cup {i})

get_compiled_patterns(json_patterns) == CompilePatterns(json_patterns, 1, {0})

\* the loop of _get_compiled_profanity_patterns: re.compile(re.escape(p))
\* takes every string as a literal; re.escape raises TypeError on a value
\* that is not a string
RECURSIVE CompileProfanity(_, _, _)
CompileProfanity(json_profanity, i, cache) ==
    IF i > Len(json_profanity) THEN [raised |-> FALSE, applied |-> cache]
    ELSE IF json_profanity[i] = "not_string"
    THEN [raised |-> TRUE, applied |-> {}]
    ELSE CompileProfanity(json_profanity, i + 1, cache \cup {i})

get_compiled_profanity_patterns(json_profanity) ==
    CompileProfanity(json_profanity, 1, {0})

TextFunctions ==
    {"postprocess_text", "receive_results", "filter_segments",
     "filter_profanity", "apply_dictionary_mapping", "split_for_subtitle",
     "get_compiled_patterns", "get_compiled_profanity_patterns",
     "parse_haiv_response", "apply_dictionary_mapping_json",
     "whisper_receive_results", "detect_music"}

\* the argument lists one call can have
Arguments(f) ==
    CASE f = "postprocess_text" ->
           [text : TextsOver(TranscriptVocabulary, MaxTranscript),
            detect_speaker_change : BOOLEAN]
      [] f = "receive_results" ->
           [text : TextsOver(TranscriptVocabulary, MaxTranscript),
            client : AllEngines]
      [] f = "filter_segments" ->
           [text : TextsOver(TranscriptVocabulary, MaxTranscript)]
      [] f = "filter_profanity" ->
           [text : TextsOver(ProfanityVocabulary, MaxProfane),
            json_profanity : JsonProfanity]
      [] f = "apply_dictionary_mapping" ->
           [text : TextsOver(DictionaryVocabulary, MaxTerms)]
      [] f = "apply_dictionary_mapping_json" ->
           [text : TextsOver(DictionaryVocabulary, MaxTerms),
            apply_government_dict : BOOLEAN, json : JsonDictionaries]
      [] f = "whisper_receive_results" -> [messages : WhisperSessions]
      [] f = "detect_music" ->
           [text : TextsOver(TranscriptVocabulary, 1),
            no_speech_prob : 0..Grain,
            avg_logprob : (-MaxLogprob * Grain)..Grain]
      [] f = "split_for_subtitle" ->
           [text : TextsOver(SubtitleAlphabet, MaxSubtitle),
            max_length : MaxLengths, min_length : MinLengths]
      [] f = "get_compiled_patterns" -> [entries : DynamicTables]
      [] f = "get_compiled_profanity_patterns" -> [entries : DynamicTables]
      [] f = "parse_haiv_response" ->
           [client : {"haiv", "batch", "live_haiv"}, response : HaivResponses]

InitText ==
    /\ engine = "postprocessing"
    /\ SessionIdle
    /\ PipeIdle
    /\ ParseIdle
    /\ ConvIdle
    /\ StoreIdle
    /\ DetectorIdle
    /\ fn \in TextFunctions
    /\ fn_args \in Arguments(fn)
    /\ fn_pc = "call"
    /\ fn_ret = <<>>

Return(value) ==
    /\ fn_pc = "call"
    /\ fn_pc' = "returned"
    /\ fn_ret' = value
    /\ UNCHANGED <<fn, fn_args, outsideText>>

CallPostprocess ==
    /\ fn = "postprocess_text"
    /\ Return(postprocess_text(fn_args.text, fn_args.detect_speaker_change))

CallReceive ==
    /\ fn = "receive_results"
    /\ Return(receive_results(fn_args.client, fn_args.text))

CallFilterSegments ==
    /\ fn = "filter_segments"
    /\ Return(filter_segments(fn_args.text))

CallFilterProfanity ==
    /\ fn = "filter_profanity"
    /\ Return(filter_profanity(fn_args.text,
                               MergedProfanity(fn_args.json_profanity)))

\* the text after one application, and after a second one
CallDictionary ==
    /\ fn = "apply_dictionary_mapping"
    /\ Return([once |-> apply_dictionary_mapping(fn_args.text),
               twice |-> apply_dictionary_mapping(
                             apply_dictionary_mapping(fn_args.text))])

CallDictionaryJson ==
    /\ fn = "apply_dictionary_mapping_json"
    /\ Return(apply_dictionary_mapping_json(
                  fn_args.text, fn_args.apply_government_dict, fn_args.json))

CallWhisperReceive ==
    /\ fn = "whisper_receive_results"
    /\ Return(whisper_receive_results(fn_args.messages))

CallDetectMusic ==
    /\ fn = "detect_music"
    /\ Return(detect_music_scored(fn_args.text, fn_args.no_speech_prob,
                                  fn_args.avg_logprob))

CallSplit ==
    /\ fn = "split_for_subtitle"
    /\ Return(split_for_subtitle(fn_args.text, fn_args.max_length,
                                 fn_args.min_length))

\* is_hallucination: for pattern in _get_compiled_patterns()
CallCompilePatterns ==
    /\ fn = "get_compiled_patterns"
    /\ Return(get_compiled_patterns(fn_args.entries))

\* filter_profanity: for pattern in _get_compiled_profanity_patterns()
CallCompileProfanity ==
    /\ fn = "get_compiled_profanity_patterns"
    /\ Return(get_compiled_profanity_patterns(fn_args.entries))

\* one HAIV message read by a client
CallParseHaiv ==
    /\ fn = "parse_haiv_response"
    /\ Return(parse_haiv_response(fn_args.client, fn_args.response))

NextText ==
    \/ CallPostprocess
    \/ CallReceive
    \/ CallFilterSegments
    \/ CallFilterProfanity
    \/ CallDictionary
    \/ CallSplit
    \/ CallCompilePatterns
    \/ CallCompileProfanity
    \/ CallParseHaiv
    \/ CallDictionaryJson
    \/ CallWhisperReceive
    \/ CallDetectMusic

SpecText == InitText /\ [][NextText]_vars

\* ----------------------------------------- the dictionary store at work
\* os.path.getmtime(_DATA_FILE), 0 on OSError
current_mtime == IF file_content = Missing THEN 0 ELSE file_mtime

\* _load_json_data(): the data it returns (as dynamic entries) and the cache
\* it leaves; json_data_cache 0 is None.  FileNotFoundError and
\* JSONDecodeError give {}; the UnicodeDecodeError of an undecodable file is
\* not caught
LoadJsonData ==
    IF json_data_cache /= 0 /\ json_data_mtime = current_mtime
    THEN [data |-> DocEntries(json_data_cache), raised |-> FALSE,
          cache |-> json_data_cache, mtime |-> json_data_mtime]
    ELSE IF file_content \in Documents
    THEN [data |-> DocEntries(file_content), raised |-> FALSE,
          cache |-> file_content, mtime |-> current_mtime]
    ELSE [data |-> {}, raised |-> file_content = Undecodable,
          cache |-> json_data_cache, mtime |-> json_data_mtime]

\* what one call saw and used: the file and the save under way when it was
\* made, the dynamic entries its table held before, those it worked with
Call(f, before, entries, raised) ==
    [f |-> f, content |-> file_content,
     stale |-> /\ current_mtime /= json_data_mtime
               /\ current_mtime /= json_profanity_mtime
               /\ current_mtime /= json_patterns_mtime,
     saving |-> save_pc = "open", old |-> save_old, new |-> save_new,
     before |-> before, used |-> entries, raised |-> raised]

\* the file and the writer do not move
FileUnchanged == UNCHANGED <<file_content, file_mtime, save_pc, save_old, save_new>>

\* a _get_compiled_profanity_patterns that compiles once and never looks at
\* the modification time again
GetCompiledProfanityPatternsOnce ==
    LET rebuild == ~compiled_json_profanity_cache.built
        raised == rebuild /\ LoadJsonData.raised
        table == IF rebuild
                 THEN [built |-> TRUE, dynamic |-> LoadJsonData.data]
                 ELSE compiled_json_profanity_cache
    IN  /\ compiled_json_profanity_cache' =
               IF raised THEN compiled_json_profanity_cache ELSE table
        /\ json_profanity_mtime' =
               IF rebuild /\ ~raised THEN current_mtime
               ELSE json_profanity_mtime
        /\ json_data_cache' =
               IF rebuild THEN LoadJsonData.cache ELSE json_data_cache
        /\ json_data_mtime' =
               IF rebuild THEN LoadJsonData.mtime ELSE json_data_mtime
        /\ store_call' =
               Call("filter_profanity", compiled_json_profanity_cache.dynamic,
                    IF raised THEN {} ELSE table.dynamic, raised)
        /\ UNCHANGED <<compiled_patterns_cache, patterns_version,
                       json_patterns_mtime>>
        /\ FileUnchanged
        /\ UNCHANGED outsideStore

\* filter_profanity(text) on a non-empty text: the loop runs over
\* _get_compiled_profanity_patterns(); an exception of the load leaves the
\* caches as they were
GetCompiledProfanityPatterns ==
    LET rebuild == \/ ~compiled_json_profanity_cache.built
                   \/ json_profanity_mtime /= current_mtime
        raised == rebuild /\ LoadJsonData.raised
        table == IF rebuild
                 THEN [built |-> TRUE, dynamic |-> LoadJsonData.data]
                 ELSE compiled_json_profanity_cache
    IN  /\ compiled_json_profanity_cache' =
               IF raised THEN compiled_json_profanity_cache ELSE table
        /\ json_profanity_mtime' =
               IF rebuild /\ ~raised THEN current_mtime
               ELSE json_profanity_mtime
        /\ json_data_cache' =
               IF rebuild THEN LoadJsonData.cache ELSE json_data_cache
        /\ json_data_mtime' =
               IF rebuild THEN LoadJsonData.mtime ELSE json_data_mtime
        /\ store_call' =
               Call("filter_profanity", compiled_json_profanity_cache.dynamic,
                    IF raised THEN {} ELSE table.dynamic, raised)
        /\ UNCHANGED <<compiled_patterns_cache, patterns_version,
                       json_patterns_mtime>>
        /\ FileUnchanged
        /\ UNCHANGED outsideStore

\* is_hallucination(text) on a text longer than two characters: the loop
\* runs over _get_compiled_patterns(); the version is the number of patterns
GetCompiledPatterns ==
    LET json_patterns == LoadJsonData.data
        raised == LoadJsonData.raised
        current_version == Cardinality(json_patterns)
        rebuild == /\ ~raised
                   /\ \/ ~compiled_patterns_cache.built
                      \/ patterns_version /= current_version
                      \/ json_patterns_mtime /= current_mtime
        table == IF rebuild
                 THEN [built |-> TRUE, dynamic |-> json_patterns]
                 ELSE compiled_patterns_cache
    IN  /\ compiled_patterns_cache' = table
        /\ patterns_version' =
               IF rebuild THEN current_version ELSE patterns_version
        /\ json_patterns_mtime' =
               IF rebuild THEN current_mtime ELSE json_patterns_mtime
        /\ json_data_cache' = LoadJsonData.cache
        /\ json_data_mtime' = LoadJsonData.mtime
        /\ store_call' =
               Call("is_hallucination", compiled_patterns_cache.dynamic,
                    IF raised THEN {} ELSE table.dynamic, raised)
        /\ UNCHANGED <<compiled_json_profanity_cache, json_profanity_mtime>>
        /\ FileUnchanged
        /\ UNCHANGED outsideStore

\* apply_dictionary_mapping(text) on a non-empty text: the three
\* _load_json_* calls read _load_json_data()
ApplyDictionaryMapping ==
    /\ json_data_cache' = LoadJsonData.cache
    /\ json_data_mtime' = LoadJsonData.mtime
    /\ store_call' =
           Call("apply_dictionary_mapping", DocEntries(json_data_cache),
                LoadJsonData.data, LoadJsonData.raised)
    /\ UNCHANGED <<compiled_json_profanity_cache, json_profanity_mtime,
                   compiled_patterns_cache, patterns_version,
                   json_patterns_mtime>>
    /\ FileUnchanged
    /\ UNCHANGED outsideStore

\* admin.load_data(): the defaults when the file is missing; a file that is
\* not valid JSON makes json.load raise, and only FileNotFoundError is caught
LoadData ==
    /\ store_call' =
           Call("load_data", {}, DocEntries(file_content),
                file_content \in Broken)
    /\ UNCHANGED <<json_data_cache, json_data_mtime,
                   compiled_json_profanity_cache, json_profanity_mtime,
                   compiled_patterns_cache, patterns_version,
                   json_patterns_mtime>>
    /\ FileUnchanged
    /\ UNCHANGED outsideStore

\* the modification time a write leaves: the clock may or may not have
\* moved on since the last write
WriteTimes == {t \in {file_mtime, file_mtime + 1} : t \in 1..MaxMtime}

\* what a file under writing holds once part of the document is flushed
PartLeft == {Invalid, Undecodable}

CachesUnchanged ==
    UNCHANGED <<json_data_cache, json_data_mtime,
                compiled_json_profanity_cache, json_profanity_mtime,
                compiled_patterns_cache, patterns_version,
                json_patterns_mtime, store_call>>

\* an admin handler: data = load_data(), change it, save_data(data); here
\* up to open(DATA_FILE, 'w'), which empties the file
SaveOpen(v, t) ==
    /\ save_pc = "idle"
    /\ file_content \notin Broken
    /\ v /= file_content
    /\ save_pc' = "open"
    /\ save_old' = file_content
    /\ save_new' = v
    /\ file_content' = Invalid
    /\ file_mtime' = t
    /\ CachesUnchanged
    /\ UNCHANGED outsideStore

\* save_data: json.dump has filled the buffer and part of the document is
\* written out
SaveFlush(c, t) ==
    /\ save_pc = "open"
    /\ file_content' = c
    /\ file_mtime' = t
    /\ UNCHANGED <<save_pc, save_old, save_new>>
    /\ CachesUnchanged
    /\ UNCHANGED outsideStore

\* save_data: json.dump has written the document and the file is closed
SaveClose(t) ==
    /\ save_pc = "open"
    /\ save_pc' = "idle"
    /\ file_content' = save_new
    /\ file_mtime' = t
    /\ save_old' = Missing
    /\ save_new' = Missing
    /\ CachesUnchanged
    /\ UNCHANGED outsideStore

\* the file is deleted
FileRemoved ==
    /\ save_pc = "idle"
    /\ file_content /= Missing
    /\ file_content' = Missing
    /\ UNCHANGED <<file_mtime, save_pc, save_old, save_new>>
    /\ CachesUnchanged
    /\ UNCHANGED outsideStore

\* the file is overwritten with something that is not JSON
FileGarbled(c, t) ==
    /\ save_pc = "idle"
    /\ file_content /= c
    /\ file_content' = c
    /\ file_mtime' = t
    /\ UNCHANGED <<save_pc, save_old, save_new>>
    /\ CachesUnchanged
    /\ UNCHANGED outsideStore

InitStore ==
    /\ engine = "dictionary_store"
    /\ SessionIdle
    /\ PipeIdle
    /\ ParseIdle
    /\ ConvIdle
    /\ TextIdle
    /\ DetectorIdle
    /\ json_data_cache = 0
    /\ json_data_mtime = 0
    /\ compiled_json_profanity_cache = NoTable
    /\ json_profanity_mtime = 0
    /\ compiled_patterns_cache = NoTable
    /\ patterns_version = 0
    /\ json_patterns_mtime = 0
    /\ save_pc = "idle"
    /\ save_old = Missing
    /\ save_new = Missing
    /\ store_call = NoCall
    /\ file_content \in Documents \cup {Missing} \cup Broken
    /\ file_mtime = 1

NextStore ==
    \/ GetCompiledProfanityPatterns
    \/ GetCompiledPatterns
    \/ ApplyDictionaryMapping
    \/ LoadData
    \/ \E v \in Documents, t \in WriteTimes : SaveOpen(v, t)
    \/ \E c \in PartLeft, t \in WriteTimes : SaveFlush(c, t)
    \/ \E t \in WriteTimes : SaveClose(t)
    \/ FileRemoved
    \/ \E c \in Broken, t \in WriteTimes : FileGarbled(c, t)

SpecStore == InitStore /\ [][NextStore]_vars

\* ------------------------------------------- the speaker-change detector
\* SpeakerChangeDetector.__init__: threshold 0.70, in hundredths
threshold == 70

\* np.dot(last_embedding, embedding), in hundredths: the voices lie on a
\* line, neighbours are 0.80 alike and every step further apart costs 0.20
Similarity(a, b) == 100 - 20 * (IF a > b THEN a - b ELSE b - a)

\* the buffers a caller can hand in: "tiny" is shorter than 1600 bytes,
\* "short" shorter than min_audio_length; the others are long enough, "odd"
\* has an odd number of bytes (np.frombuffer raises) and on "unencodable"
\* the encoder raises
AudioKinds == {"tiny", "short", "full", "odd", "unencodable"}
LongKinds == {"full", "odd", "unencodable"}
AudioSegments == [kind : AudioKinds, voice : Voices]

\* get_detector(): the one module-level detector, made on first use
get_detector(d) ==
    IF d.made THEN d
    ELSE [made |-> TRUE, last_embedding |-> 0, current_speaker |-> 0]

\* a reset() that clears the reference and keeps the speaker flag
reset_embedding(d) == [d EXCEPT !.last_embedding = 0]

\* SpeakerChangeDetector.reset()
reset(d) == [d EXCEPT !.last_embedding = 0, !.current_speaker = 0]

\* a process_audio that moves the reference only when the speaker changed
process_audio_enrolled(d, seg) ==
    LET unchanged == [changed |-> FALSE, speaker |-> d.current_speaker,
                      embedding |-> 0, detector |-> d]
    IN  IF seg.kind /= "full" THEN unchanged
        ELSE IF d.last_embedding = 0
        THEN [changed |-> FALSE, speaker |-> d.current_speaker,
              embedding |-> seg.voice,
              detector |-> [d EXCEPT !.last_embedding = seg.voice]]
        ELSE LET similarity == Similarity(d.last_embedding, seg.voice)
                 speaker_changed == similarity < threshold
                 speaker == IF speaker_changed THEN 1 - d.current_speaker
                            ELSE d.current_speaker
             IN  [changed |-> speaker_changed, speaker |-> speaker,
                  embedding |-> seg.voice,
                  detector |->
                      [d EXCEPT !.current_speaker = speaker,
                                !.last_embedding =
                                    IF speaker_changed THEN seg.voice
                                    ELSE d.last_embedding]]

\* SpeakerChangeDetector.process_audio(audio_data): what it returns, the
\* embedding it computed (0: none) and the detector it leaves.  Every
\* exception ends in the handler that returns (False, current_speaker)
process_audio(d, seg) ==
    LET unchanged == [changed |-> FALSE, speaker |-> d.current_speaker,
                      embedding |-> 0, detector |-> d]
    IN  IF seg.kind /= "full" THEN unchanged
        ELSE IF d.last_embedding = 0
        THEN [changed |-> FALSE, speaker |-> d.current_speaker,
              embedding |-> seg.voice,
              detector |-> [d EXCEPT !.last_embedding = seg.voice]]
        ELSE LET similarity == Similarity(d.last_embedding, seg.voice)
                 speaker_changed == similarity < threshold
                 speaker == IF speaker_changed THEN 1 - d.current_speaker
                            ELSE d.current_speaker
             IN  [changed |-> speaker_changed, speaker |-> speaker,
                  embedding |-> seg.voice,
                  detector |-> [d EXCEPT !.current_speaker = speaker,
                                         !.last_embedding = seg.voice]]

\* the embedding of the last long-enough segment the detector processed
Preceding(seg, result) ==
    IF seg.kind \notin LongKinds THEN preceding
    ELSE IF result.embedding = 0 THEN Failed
    ELSE result.embedding

\* what one operation on the detector did
Op(op, c, seg, result) ==
    [op |-> op, conn |-> c, others |-> ws_open \ {c}, kind |-> seg.kind,
     embedding |-> result.embedding, prev |-> preceding, before |-> detector,
     changed |-> result.changed, speaker |-> result.speaker]

NoAudio == [kind |-> "none", voice |-> 0]
NoResult(d) ==
    [changed |-> FALSE, speaker |-> d.current_speaker, embedding |-> 0,
     detector |-> d]

\* speaker_websocket up to the loop: accept, get_detector(), reset()
WsOpen(c) ==
    /\ c \notin ws_open
    /\ ws_open' = ws_open \cup {c}
    /\ detector' = reset(get_detector(detector))
    /\ preceding' = 0
    /\ last_op' = Op("open", c, NoAudio, NoResult(detector'))
    /\ UNCHANGED outsideDetector

\* speaker_websocket, one round of the loop: a frame shorter than 1600
\* bytes is skipped, any other goes to process_audio and is answered
WsFrame(c, seg) ==
    /\ c \in ws_open
    /\ LET result == IF seg.kind = "tiny" THEN NoResult(detector)
                     ELSE process_audio(detector, seg)
       IN  /\ detector' = result.detector
           /\ preceding' = Preceding(seg, result)
           /\ last_op' = Op("frame", c, seg, result)
    /\ UNCHANGED ws_open
    /\ UNCHANGED outsideDetector

\* speaker_websocket: the client disconnects; the detector stays
WsClose(c) ==
    /\ c \in ws_open
    /\ ws_open' = ws_open \ {c}
    /\ last_op' = Op("close", c, NoAudio, NoResult(detector))
    /\ UNCHANGED <<detector, preceding>>
    /\ UNCHANGED outsideDetector

\* POST /api/speaker/reset
ResetSpeaker ==
    /\ detector' = reset(get_detector(detector))
    /\ preceding' = 0
    /\ last_op' = Op("reset", 0, NoAudio, NoResult(detector'))
    /\ UNCHANGED ws_open
    /\ UNCHANGED outsideDetector

\* an analyze that hands every buffer to the encoder, whatever its length
AnalyzeAudioUnchecked(seg) ==
    /\ LET made == get_detector(detector)
           long == IF seg.kind \in LongKinds THEN seg
                   ELSE [seg EXCEPT !.kind = "full"]
           result == process_audio(made, long)
       IN  /\ detector' = result.detector
           /\ preceding' = Preceding(seg, result)
           /\ last_op' = Op("analyze", 0, seg, result)
    /\ UNCHANGED ws_open
    /\ UNCHANGED outsideDetector

\* POST /api/speaker/analyze
AnalyzeAudio(seg) ==
    /\ LET made == get_detector(detector)
           result == process_audio(made, seg)
       IN  /\ detector' = result.detector
           /\ preceding' = Preceding(seg, result)
           /\ last_op' = Op("analyze", 0, seg, result)
    /\ UNCHANGED ws_open
    /\ UNCHANGED outsideDetector

InitDetector ==
    /\ engine = "speaker"
    /\ SessionIdle
    /\ PipeIdle
    /\ ParseIdle
    /\ ConvIdle
    /\ TextIdle
    /\ StoreIdle
    /\ DetectorIdle

NextDetector ==
    \/ \E c \in 1..MaxConns : WsOpen(c)
    \/ \E c \in 1..MaxConns, seg \in AudioSegments : WsFrame(c, seg)
    \/ \E c \in 1..MaxConns : WsClose(c)
    \/ ResetSpeaker
    \/ \E seg \in AudioSegments : AnalyzeAudio(seg)

SpecDetector == InitDetector /\ [][NextDetector]_vars

\* ================================================================ claims
SendTaskOver == send_pc = "done"
RecvTaskOver == recv_pc \in {"done", "cancelled"}
SessionOver == gen_pc \in {"done", "raised"}
ConnectFailed == conn = "none" /\ SessionOver

\* C1 (as stated): whenever the send task of a file-streaming client has run
\* to the end of its audio source, the end-of-stream marker has been sent to
\* the backend exactly once.
C1_EOSExactlyOnce ==
    (engine \in StreamEngines /\ SendTaskOver /\ srcEOF) => CountEOS(sent) = 1

\* C1 (amended): the marker is never sent more than once and never before the
\* source is exhausted; when the source is exhausted and no send on the
\* connection has failed, it has been sent exactly once and is the last item.
C1_EOSOnceUnlessSendFails ==
    engine \in StreamEngines =>
        /\ CountEOS(sent) <= 1
        /\ CountEOS(sent) = 1 => srcEOF
        /\ (SendTaskOver /\ srcEOF /\ ~sendRaised) =>
                (CountEOS(sent) = 1 /\ sent[Len(sent)] = EOS)

C1_Witness ==
    /\ engine \in StreamEngines
    /\ SendTaskOver /\ srcEOF /\ ~sendRaised
    /\ Len(SelectAudio(sent)) >= 2
    /\ CountEOS(sent) = 1

\* C2: in a live session the "EOS" marker goes to the backend at most once.
C2_LiveEOSAtMostOnce ==
    engine \in LiveEngines => CountEOS(sent) <= 1

\* C3: the audio payloads sent to the backend are the bytes taken from the
\* source, in order and without a gap or a repeat; when the send task ended
\* without a failed send nothing taken from the source is missing; and no
\* audio payload follows the end-of-stream marker.
Taken == IF engine \in LiveEngines THEN clientPos ELSE chunk
InOrder(a) ==
    \A i \in 1..Len(a) :
        /\ a[i].lo < a[i].hi
        /\ a[i].lo = (IF i = 1 THEN 0 ELSE a[i - 1].hi)
C3_AudioInOrderEOSLast ==
    LET a == SelectAudio(sent)
    IN /\ InOrder(a)
       /\ (SendTaskOver /\ ~sendRaised /\ conn = "open") =>
              (IF a = <<>> THEN Taken = 0 ELSE a[Len(a)].hi = Taken)
       /\ \A i, j \in 1..Len(sent) :
              (i < j /\ sent[i].k = "EOS") => sent[j].k /= "audio"

\* C4: once the receive task has handled the backend's completion message it
\* has left its loop (it reads no further and the sentinel is on its way).
C4_StopsOnCompletion ==
    (engine \in StreamEngines /\ completionRead) => recv_pc = "done"

\* C5: if the backend goes silent on an open connection and never closes it,
\* the session eventually ends and the caller has been given an error event.
SessionError ==
    IF engine \in RouterEngines
    THEN events /= <<>> /\ events[Len(events)] = "error"
    ELSE gen_pc = "raised"
C5_SilentBackendTimesOut ==
    [](silent => <>(SessionOver /\ SessionError))

\* C6: when the receive task has stopped without an error, every message the
\* backend sent to it before the completion message has been handled, and it
\* did not stop on a mere idle timeout after the send task finished.
BeforeCompletion(i) ==
    \A j \in 1..i : ~IsCompletionMsg(engine, backendLog[j].k)
InSeq(x, q) == \E i \in 1..Len(q) : q[i] = x
C6_AllResultsRead ==
    (engine \in FileEngines /\ RecvTaskOver /\ recvEnd /= "error") =>
        /\ recvEnd /= "timeout"
        /\ \A i \in 1..Len(backendLog) :
              (BeforeCompletion(i) /\ ~InSeq(i, configLog)) => InSeq(i, readLog)

\* C7: while the send task is still sending, a subtitle the receive task has
\* produced can be handed to the caller at once: delivery never waits for the
\* send task.
Sending == send_pc \in {"spawn", "read", "send", "eos"}
Undelivered ==
    IF engine = "batch"
    THEN Len(delivered) < Len(results_queue)
    ELSE results_queue /= <<>> /\ Head(results_queue) /= None
C7_DeliveredWhileSending ==
    (engine \in FileEngines /\ Sending /\ Undelivered) =>
        ENABLED (GenGet \/ BatchYield)

\* C8: the receive task of a streaming client puts the sentinel exactly once,
\* when it ends and after every subtitle it produced, and the consumer that
\* has seen the sentinel has yielded every subtitle that was queued.
C8_OneSentinelLast ==
    engine \in StreamEngines =>
        /\ CountNone(putLog) = (IF recv_pc = "done" THEN 1 ELSE 0)
        /\ recv_pc = "done" => putLog[Len(putLog)] = None
        /\ (gen_pc \in {"join", "done"} /\ ~ConnectFailed) =>
                (recv_pc = "done" /\ delivered = SelectSubs(putLog))

C8_Witness ==
    /\ engine \in StreamEngines
    /\ gen_pc = "done" /\ recv_pc = "done"
    /\ recvEnd \in {"completion", "closed", "error", "timeout"}
    /\ Len(delivered) >= 2
    /\ CountNone(putLog) = 1

\* C9: subtitles reach the caller in the order in which their messages were
\* read, and subtitles of one message in the order of its segments.
Pos(x, q) == CHOOSE i \in 1..Len(q) : q[i] = x
C9_DeliveryOrder ==
    engine \in FileEngines =>
        \A i, j \in 1..Len(delivered) :
            i < j =>
                /\ InSeq(delivered[i].msg, readLog)
                /\ InSeq(delivered[j].msg, readLog)
                /\ \/ Pos(delivered[i].msg, readLog) < Pos(delivered[j].msg, readLog)
                   \/ /\ delivered[i].msg = delivered[j].msg
                      /\ delivered[i].seg < delivered[j].seg

C9_Witness ==
    /\ engine \in FileEngines
    /\ Len(delivered) >= 3
    /\ delivered[1].msg = delivered[2].msg
    /\ delivered[3].msg /= delivered[1].msg

\* C10: when the connection cannot be established the session ends with an
\* error event for the caller, no subtitle, and no exception out of the
\* generator.
C10_ConnectFailureIsError ==
    (engine \in StreamEngines /\ ConnectFailed) =>
        /\ gen_pc /= "raised"
        /\ delivered = <<>>
        /\ engine \in RouterEngines => events[Len(events)] = "error"

\* C11: when a send on the backend connection raised, or the receive task
\* found the connection closed before any completion message, the session
\* that has ended gave its caller exactly one error event, as the last
\* event, and every subtitle yielded before it is still among the events.
CountEv(ev, name) == Len(SelectSeq(ev, LAMBDA x : x = name))
ConnectionFailed == sendRaised \/ (recvEnd = "closed" /\ ~completionRead)
C11_ConnFailureOneError ==
    (engine \in RouterEngines /\ ConnectionFailed /\ SessionOver) =>
        /\ CountEv(events, "error") = 1
        /\ events[Len(events)] = "error"
        /\ CountEv(events, "subtitle") = Len(delivered)

\* C12: a receive loop that takes a message which is not JSON off the
\* connection stays in its loop: the message does not end the receive task.
C12_UndecodableSkipped ==
    [][(recv_pc = "wait" /\ inbox /= <<>> /\ Head(inbox).k = "junk"
            /\ inbox' = Tail(inbox))
        => (recv_pc' = "wait" /\ recvEnd' = recvEnd)]_vars

\* C13: once cancel() has been called on a run of the chunk pipeline, the run
\* yields no further subtitle to its caller.
C13_NothingAfterCancel ==
    cancelMark >= 0 =>
        \A i \in (cancelMark + 1)..Len(pevents) : pevents[i] /= "SUBTITLE"

\* C14: when the subtitle sequence of a streaming session has finished (the
\* generator returned, raised or was closed by its caller), the session's
\* ffmpeg subprocess is not running and its backend connection is not open.
SequenceFinished == gen_pc \in {"done", "raised", "closed"}
C14_ReleasedAtEnd ==
    (engine \in StreamEngines /\ SequenceFinished) =>
        /\ proc /= "running"
        /\ conn \in {"none", "closed"}

\* C15: the ids of the segments of one batch transcription result are
\* strictly increasing in the order of the result.
C15_IdsIncreasing ==
    parse_pc = "done" =>
        \A i, j \in 1..Len(stt_segments) :
            i < j => stt_segments[i] < stt_segments[j]

\* what the backend reported for the segment converted last
Reported ==
    /\ emitted > 0
    /\ msg_in.start \notin {NoValue, BadValue}
    /\ IF engine \in {"haiv", "batch", "live_haiv"}
       THEN msg_in.length /= NoValue
       ELSE msg_in.end \notin {NoValue, BadValue}
ReportedStart == msg_in.start
ReportedEnd ==
    IF engine \in {"haiv", "batch", "live_haiv"}
    THEN msg_in.start + msg_in.length
    ELSE msg_in.end

\* C16: a subtitle made by a file client from a segment whose reported span
\* is at least one second carries the reported start and end, each plus
\* the caller's start_offset.
C16_OffsetAdded ==
    (engine \in FileEngines /\ Reported /\ ReportedEnd - ReportedStart >= 10) =>
        /\ subtitle.start_time = ReportedStart + start_offset
        /\ subtitle.end_time = ReportedEnd + start_offset

\* C17: a subtitle made by a file client from a segment whose reported span
\* is under one second starts at the reported start plus start_offset and
\* ends exactly three seconds after its start.
C17_ShortSpanWidened ==
    (engine \in FileEngines /\ Reported /\ ReportedEnd - ReportedStart < 10) =>
        /\ subtitle.start_time = ReportedStart + start_offset
        /\ subtitle.end_time = subtitle.start_time + 30

\* C18: every subtitle any client makes ends no earlier than it starts.
C18_EndNotBeforeStart ==
    emitted > 0 => subtitle.end_time >= subtitle.start_time

\* C19: in a session started with enable_diarization = False every
\* subtitle has speaker None.
C19_NoSpeakerWithoutDiarization ==
    (emitted > 0 /\ ~enable_diarization) => subtitle.speaker = NoValue

\* C20: in one WhisperLiveKit session no line index is converted to a
\* candidate twice: a line converted from an earlier message is not
\* converted again from a later one.
C20_LineConvertedOnce ==
    engine = "wlk" =>
        \A i, j \in 1..Len(putLog) :
            (i < j /\ putLog[i] /= None /\ putLog[j] /= None) =>
                putLog[i].seg /= putLog[j].seg

\* the call in this behaviour is a returned call of f
Returned(f) == fn = f /\ fn_pc = "returned"

\* C21: a candidate whose cleaned text is a hallucination gets the empty
\* string from postprocess_text, which then runs neither the dictionary
\* correction nor the broadcast-safety filter nor the speaker-break
\* insertion, and no backend client puts a subtitle on its queue for it.
C21_HallucinationNeverSubtitled ==
    /\ (Returned("postprocess_text")
            /\ is_hallucination(clean_text(fn_args.text)))
         => /\ fn_ret.text = <<>>
            /\ fn_ret.stages \cap {"dictionary", "safety", "breaks"} = {}
    /\ (Returned("receive_results")
            /\ is_hallucination(clean_text(fn_args.text)))
         => ~fn_ret.put

\* C22: a text that matches a music pattern comes out of postprocessing as
\* the music label, exactly: it is not rejected as a hallucination and no
\* dictionary or profanity substitution touches it.
C22_MusicYieldsLabel ==
    /\ (Returned("postprocess_text") /\ detect_music(fn_args.text))
         => fn_ret.text = MusicLabel
    /\ (Returned("filter_segments") /\ detect_music(fn_args.text))
         => fn_ret = <<MusicLabel>>
    /\ (Returned("receive_results") /\ fn_args.client = "wlk"
            /\ detect_music(fn_args.text))
         => (fn_ret.put /\ fn_ret.text = MusicLabel)

\* the places of s where the entry occurs
OccurrencesOf(s, entry) == Cardinality({i \in 1..Len(s) : MatchAt(s, i, entry)})

\* the entries of the table, as sets of letters in lower case: two entries
\* that differ only in case are one entry
Entries(table) ==
    {[i \in 1..Len(table[k]) |-> Lower(table[k][i])] : k \in 1..Len(table)}

RECURSIVE TableOccurrences(_, _)
\* the occurrences in s of the entries, added up
TableOccurrences(s, entries) ==
    IF entries = {} THEN 0
    ELSE LET e == CHOOSE x \in entries : TRUE
         IN  OccurrencesOf(s, e) + TableOccurrences(s, entries \ {e})

\* C23: the text filter_profanity returns holds no occurrence, in any case
\* of letters, of any entry of the merged profanity table, and the count it
\* returns is the number of occurrences of table entries in the input.
C23_ProfanityMaskedAndCounted ==
    Returned("filter_profanity") =>
        LET table == MergedProfanity(fn_args.json_profanity)
        IN  /\ \A k \in 1..Len(table) : ~Occurs(fn_ret.text, table[k])
            /\ fn_ret.count = TableOccurrences(fn_args.text, Entries(table))

\* C24: apply_dictionary_mapping changes nothing in a text it has already
\* corrected: a second application returns the result of the first.
C24_DictionaryIdempotent ==
    Returned("apply_dictionary_mapping") => fn_ret.twice = fn_ret.once

\* C25: no line of split_for_subtitle is longer than max_length, and a line
\* cut by the forced break is exactly max_length characters long.
C25_LinesWithinMaxLength ==
    Returned("split_for_subtitle") =>
        \A i \in 1..Len(fn_ret) :
            /\ Len(fn_ret[i].line) <= fn_args.max_length
            /\ fn_ret[i].forced => Len(fn_ret[i].line) = fn_args.max_length

\* ------------------------------------------------------------------ C26
\* the postprocessing functions that read the dictionary store
PostprocessingCalls ==
    {"is_hallucination", "filter_profanity", "apply_dictionary_mapping"}

\* C26: a postprocessing call made while the file holds a valid document
\* whose modification time differs from the cached modification times
\* works with exactly the dynamic entries of that document: all of the new
\* content and none that only the old content had
C26_NextCallUsesNewContent ==
    (/\ store_call.f \in PostprocessingCalls
     /\ store_call.stale
     /\ store_call.content \in Documents)
        => (~store_call.raised
            /\ store_call.used = DocEntries(store_call.content))

\* a call whose table held the entries of another document before, made
\* after the file was written with a new modification time
C26_Witness ==
    /\ store_call.f \in PostprocessingCalls
    /\ store_call.stale
    /\ store_call.content \in Documents
    /\ store_call.before /= {}
    /\ store_call.before /= DocEntries(store_call.content)
    /\ store_call.used = DocEntries(store_call.content)

\* ------------------------------------------------------------------ C27
\* C27: a call made while the file is missing or is not valid JSON does
\* not raise and works with no dynamic entry, that is with the built-in
\* tables and the default preferences only
C27_BrokenFileNeverRaises ==
    (/\ store_call.f /= "none"
     /\ store_call.content \in {Missing} \cup Broken)
        => (~store_call.raised /\ store_call.used = {})

ProcessedLong == last_op.op \in {"frame", "analyze"} /\ last_op.kind \in LongKinds

\* C29, as stated: for every processed segment of at least the minimum
\* length, the first after creation or reset() reports no change; a later
\* one reports a change and toggles current_speaker exactly when its
\* embedding and that of the segment processed just before are less alike
\* than threshold; and afterwards the stored reference is its embedding
C29_ChangeExactlyWhenDissimilar ==
    ProcessedLong =>
        /\ last_op.embedding \in Voices
        /\ detector.last_embedding = last_op.embedding
        /\ last_op.changed =
               /\ last_op.prev \in Voices
               /\ Similarity(last_op.prev, last_op.embedding) < threshold
        /\ detector.current_speaker =
               IF last_op.changed THEN 1 - last_op.before.current_speaker
               ELSE last_op.before.current_speaker
        /\ last_op.speaker = detector.current_speaker

\* C29, amended: the statement holds of the segments whose embedding is
\* computed, with the stored reference, which is the embedding of the last
\* such segment since creation or reset(), in the place of the segment
\* before; a segment whose processing raises reports no change and leaves
\* the detector as it was
C29_ChangeWhenEmbeddedAndDissimilar ==
    ProcessedLong =>
        /\ last_op.embedding \in Voices =>
               /\ detector.last_embedding = last_op.embedding
               /\ last_op.changed =
                      /\ last_op.before.last_embedding \in Voices
                      /\ Similarity(last_op.before.last_embedding,
                                    last_op.embedding) < threshold
        /\ last_op.embedding \notin Voices =>
               /\ ~last_op.changed
               /\ detector.last_embedding = last_op.before.last_embedding
        /\ detector.current_speaker =
               IF last_op.changed THEN 1 - last_op.before.current_speaker
               ELSE last_op.before.current_speaker
        /\ last_op.speaker = detector.current_speaker
        /\ preceding \in Voices => detector.last_embedding = preceding

\* a segment alike to the reference was processed after a change of speaker
C29_Witness ==
    /\ ProcessedLong
    /\ last_op.embedding \in Voices
    /\ last_op.before.last_embedding \in Voices
    /\ last_op.before.last_embedding /= last_op.embedding
    /\ ~last_op.changed
    /\ detector.current_speaker = 1

\* ------------------------------------------------------------------ C30
\* C30: opening a connection, processing audio on it or resetting leaves
\* the reference embedding and current_speaker that the other open
\* connections work with as they were
C30_ConnectionsIsolated ==
    (last_op.op \in {"open", "frame", "reset"} /\ last_op.others /= {})
        => /\ detector.last_embedding = last_op.before.last_embedding
           /\ detector.current_speaker = last_op.before.current_speaker

\* ------------------------------------------------------------------ C31
\* C31: a run of the chunk pipeline on which cancel() was called does not
\* close with an ERROR event.
C31_CancelNotAnError ==
    (p_pc = "done" /\ cancelMark >= 0) => pevents[Len(pevents)] /= "ERROR"

\* ------------------------------------------------------------------ C32
\* C32: compiling a dynamic hallucination or profanity table does not
\* raise; the static entries and every dynamic entry that is a well-formed
\* string are in the compiled table, and no value that is not a string is.
C32_BadEntryAloneSkipped ==
    (Returned("get_compiled_patterns")
     \/ Returned("get_compiled_profanity_patterns"))
        => /\ ~fn_ret.raised
           /\ 0 \in fn_ret.applied
           /\ \A i \in 1..Len(fn_args.entries) :
                  /\ fn_args.entries[i] = "regex" => i \in fn_ret.applied
                  /\ fn_args.entries[i] = "not_string"
                         => i \notin fn_ret.applied

\* ------------------------------------------------------------------ C33
\* C33: no HAIV client makes a subtitle of a message whose result is not
\* marked final.
C33_PartialsIgnored ==
    (Returned("parse_haiv_response") /\ fn_args.response.final /= "true")
        => ~fn_ret

\* ------------------------------------------------------------------ C34
\* a dynamic table without the entries whose key its static part has
WithoutStaticKeys(static, dynamic) ==
    SelectSeq(dynamic, LAMBDA e : \A i \in 1..Len(static) :
                                      static[i].wrong /= e.wrong)

\* C34: a dynamic entry under a key of the static part of its table has no
\* effect: the output is the one of the same call with these entries
\* taken out of the dynamic tables, the static replacement alone applied.
C34_StaticKeyWins ==
    Returned("apply_dictionary_mapping_json")
        => fn_ret = apply_dictionary_mapping_json(
               fn_args.text, fn_args.apply_government_dict,
               [government_dict |->
                    WithoutStaticKeys(GOVERNMENT_CORRECTION_DICT,
                                      fn_args.json.government_dict),
                proper_nouns |->
                    WithoutStaticKeys(PROPER_NOUN_DICT,
                                      fn_args.json.proper_nouns),
                abbreviations |->
                    WithoutStaticKeys(ABBREVIATION_DICT,
                                      fn_args.json.abbreviations)])

\* bokjibu with a dynamic entry bokjibu -> eiai baksu in the government
\* table: the static entry has made it bogeon bokjibu
C34_Witness ==
    /\ Returned("apply_dictionary_mapping_json")
    /\ fn_args.text = <<"bokjibu">>
    /\ fn_args.apply_government_dict
    /\ \E i \in 1..Len(fn_args.json.government_dict) :
           fn_args.json.government_dict[i].wrong = <<"bokjibu">>
    /\ fn_ret = <<"bogeon", "bokjibu">>

\* ------------------------------------------------------------------ C35
\* process_audio was the last thing called, on a buffer shorter than
\* min_audio_length (the websocket loop does not call it on a tiny frame)
ProcessedShort ==
    /\ last_op.kind \in AudioKinds \ LongKinds
    /\ \/ last_op.op = "analyze"
       \/ last_op.op = "frame" /\ last_op.kind = "short"

\* C35: process_audio on a segment shorter than the minimum length reports
\* no change with the current speaker and leaves the reference embedding and
\* current_speaker as they were, so the segment the next adequate one is
\* compared with is the same as before.
C35_ShortSegmentChangesNothing ==
    ProcessedShort
        => /\ ~last_op.changed
           /\ last_op.speaker = last_op.before.current_speaker
           /\ detector.last_embedding = last_op.before.last_embedding
           /\ detector.current_speaker = last_op.before.current_speaker
           /\ preceding = last_op.prev

\* a short segment handed to a detector that holds a reference and stands
\* at speaker 1
C35_Witness ==
    /\ ProcessedShort
    /\ last_op.before.last_embedding \in Voices
    /\ last_op.before.current_speaker = 1

\* ------------------------------------------------------------------ C36
\* C36: current_speaker is 0 or 1 and is the parity of the changes reported
\* since creation or the last reset(): creation and reset() leave no
\* reference and speaker 0, a call that reports a change flips the flag, a
\* call that reports none keeps it, and a call that fails or is too short
\* reports none.
C36_SpeakerIsParityOfChanges ==
    [][/\ detector'.current_speaker \in {0, 1}
       /\ last_op'.op \in {"open", "reset"}
              => detector'.current_speaker = 0 /\ detector'.last_embedding = 0
       /\ (~detector.made /\ detector'.made /\ last_op'.op = "analyze")
              => detector'.current_speaker =
                     (IF last_op'.changed THEN 1 ELSE 0)
       /\ (detector.made /\ last_op'.op \in {"frame", "analyze", "close"})
              => detector'.current_speaker =
                     (IF last_op'.changed THEN 1 - detector.current_speaker
                      ELSE detector.current_speaker)
       /\ last_op'.speaker = detector'.current_speaker
       /\ last_op'.kind /= "full" => ~last_op'.changed]_vars

\* a second change has brought the flag back to 0
C36_Witness ==
    /\ last_op.op \in {"frame", "analyze"}
    /\ last_op.changed
    /\ last_op.before.current_speaker = 1
    /\ detector.current_speaker = 0

\* ------------------------------------------------------------------ C37
\* every payload but the last is HAIV_CHUNK_SIZE bytes, the last no more
FullChunks(a) ==
    \A i \in 1..Len(a) :
        IF i < Len(a) THEN a[i].hi - a[i].lo = HAIV_CHUNK_SIZE
        ELSE a[i].hi - a[i].lo <= HAIV_CHUNK_SIZE

\* the payloads are the client's bytes from the first to the last received
AllClientBytes(a) ==
    /\ InOrder(a)
    /\ IF a = <<>> THEN clientPos = 0 ELSE a[Len(a)].hi = clientPos

\* C37: when the send loop of a live HAIV session has ended, the
\* audio payloads sent to the backend are, end to end, the client's frames
\* end to end, every payload but the last being 4000 bytes.
C37_RechunkingLosesNothing ==
    (engine = "live_haiv" /\ SendTaskOver)
        => /\ AllClientBytes(SelectAudio(sent))
           /\ FullChunks(SelectAudio(sent))

\* ------------------------------------------------------------------ C38
\* the utterances a message reports
Announced(m) ==
    IF m.type = "segment" THEN {m.utterance} \ {0}
    ELSE {m.segments[i] : i \in 1..Len(m.segments)}
             \cup {m.lines[i] : i \in 1..Len(m.lines)}

\* C38: in a Whisper session every utterance the backend reports, as a
\* segment event, in the final message or in both, is emitted as exactly
\* one subtitle.
C38_EveryUtteranceOnce ==
    Returned("whisper_receive_results")
        => \A u \in UNION {Announced(fn_args.messages[i]) :
                              i \in 1..Len(fn_args.messages)} :
               Cardinality({i \in 1..Len(fn_ret) : fn_ret[i] = u}) = 1

\* ------------------------------------------------------------------ C39
\* C39: a text that matches no music, lyric or anthem pattern is never
\* classified as music, whatever no_speech_prob in [0, 1] and avg_logprob
\* are: under the guard of the heuristic the confidence stays at or below
\* 0.6.
C39_HeuristicNeverFires ==
    (Returned("detect_music") /\ ~detect_music(fn_args.text))
        => /\ ~fn_ret
           /\ HeuristicGuard(fn_args.no_speech_prob, fn_args.avg_logprob)
                  => 10 * Confidence2(fn_args.no_speech_prob,
                                      fn_args.avg_logprob) <= 12 * Grain

\* no_speech_prob = 1 and avg_logprob = -0.95 on a spoken text: the guard
\* holds, the confidence is 0.525
C39_Witness ==
    /\ Returned("detect_music")
    /\ fn_args.text = <<"hoeuireul">>
    /\ HeuristicGuard(fn_args.no_speech_prob, fn_args.avg_logprob)
    /\ 2 * Confidence2(fn_args.no_speech_prob, fn_args.avg_logprob) > Grain
    /\ ~fn_ret

\* ------------------------------------------------------------------ C40
\* an ERROR event for one chunk follows the chunk's CHUNK_START (audio
\* extraction) or CHUNK_AUDIO (STT); every other ERROR, and COMPLETE, is
\* terminal
ChunkError(ev, i) ==
    /\ ev[i] = "ERROR"
    /\ i > 1
    /\ ev[i - 1] \in {"CHUNK_START", "CHUNK_AUDIO"}
Terminal(ev, i) ==
    \/ ev[i] = "COMPLETE"
    \/ ev[i] = "ERROR" /\ ~ChunkError(ev, i)

\* the run is over and the caller has every event it yielded
RunOver == p_pc \in {"done", "closed"} /\ Len(events) = Len(pevents)

\* C40: the events of a run end with its only terminal event, COMPLETE or
\* the ERROR of a cancellation or a fatal failure; the ERROR of one chunk
\* does not end the run, and the chunks after it are processed.
C40_ChunkErrorDoesNotEndRun ==
    RunOver
        => /\ events /= <<>>
           /\ \A i \in 1..Len(events) :
                  Terminal(events, i) <=> i = Len(events)
           /\ (events[1] = "INIT" /\ ~is_cancelled)
                  => chunk_index = total_duration

====
